---- MODULE Spec2Model ----
(***************************************************************************)
(* Model of the shared infrastructure of crypto-intel-github-bot:          *)
(*   - the rate-limited API clients (CoinDesk, CoinGecko, Arkham Intel),   *)
(*   - their TTL caches and the cached reads that go through them,         *)
(*   - the cron task runner (ScheduledTasks),                              *)
(*   - the signed-webhook dispatcher (WebhookHandler behind express),      *)
(*   - the health aggregator (ApiServices.getOverallStatus),               *)
(*   - the bot commands of issue comments,                                 *)
(*   - the GET /api/status endpoint,                                       *)
(*   - the outgoing calls of the webhook event handlers.                   *)
(* Each component has its own specification (SpecClient, SpecPaced,        *)
(* SpecArkham, SpecCache, SpecTrim, SpecRead, SpecSched, SpecCalls,        *)
(* SpecCutOff, SpecTimed, SpecHook, SpecSequence, SpecEffects, SpecStatus, *)
(* SpecStatusLive, SpecEndpoint, SpecBot) over one set of variables; a     *)
(* component's actions leave the other components' variables unchanged.    *)
(***************************************************************************)
EXTENDS Integers, Sequences, FiniteSets, Bags, TLC

VARIABLES
  now,              \* Date.now(), in milliseconds
  apiKey,           \* client -> whether config.apis.<client>.apiKey is set
  lastRequestTime,  \* client -> this.lastRequestTime
  pc,               \* caller -> position inside makeRequest
  callClient,       \* caller -> the client its current call goes through
  nowAtCall,        \* caller -> the local "now" read when its call started
  wakeAt,           \* caller -> expiry time of its pending setTimeout
  attempts,         \* caller -> number of HTTP attempts made by its current call
  result,           \* caller -> outcome of its last completed call
  issued,           \* client -> sequence of outbound HTTP requests issued
  cache,            \* store -> this.cache, a Map in insertion order
  latest,           \* store -> key -> the latest setCachedData(key, ..) made (history)
  cacheOp,          \* the last cache operation and what it returned (history)
  reading,          \* caller -> cache key its cached read is fetching (0: none)
  readOp,           \* the last cached read started: its caller, whether it found a
                    \* fresh entry, and the parity of the number of reads (history)
  isRunning,        \* ScheduledTasks.isRunning
  tasks,            \* ScheduledTasks.tasks: name -> the cron task registered under it
  orphans,          \* started cron tasks that no name maps to any more
  firings,          \* the timer callbacks that are in progress
  cutOff,           \* history: how the cron task of a firing in progress ended
  insertions,       \* history: the keys of each store in the order they were inserted
  called,           \* history: the runner method the last step called, if any
  reports,          \* the outcome events logged by the timer callbacks (a bag)
  escaped,          \* number of exceptions that left a timer callback
  replaced,         \* an addTask call has replaced an active cron task
  secret,           \* githubApp.webhooks.secret (config.github.webhookSecret)
  hook,             \* the webhook request being served and its response
  health,           \* the getOverallStatus call in progress, or the last one made
  bot,              \* the issue comment whose bot commands are being executed
  endpoint,         \* the GET /api/status request being served
  effects           \* the side effects of the webhook handler that ran last

cacheVars == <<cache, latest, cacheOp, reading, readOp>>

schedVars == <<isRunning, tasks, orphans, firings, reports, escaped, replaced>>

hookVars == <<secret, hook>>

clientVars == <<apiKey, lastRequestTime, pc, callClient, nowAtCall, wakeAt, attempts, result, issued>>

appVars == <<health, bot, endpoint, effects>>

histVars == <<cutOff, insertions, called>>
vars == <<now, clientVars, cacheVars, schedVars, histVars, hookVars, appVars>>

----------------------------------------------------------------------------
(* Bounds                                                                  *)

\* Date.now() when the process starts (any value far above every delay).
BootTime == 5000
\* The clients are observed up to BootTime + Horizon.
Horizon == 1000
\* The caches are observed up to BootTime + CacheHorizon.
CacheHorizon == 500
\* Number of concurrent call chains (timer firings, webhook handlers).
NumCallers == 2
\* Total number of makeRequest calls that get past the API-key check.
MaxIssued == 3

\* Amounts by which the clock advances between two steps of the program.
TickSteps == {250, 500}

\* Number of cache operations performed on a store after Init.
MaxCacheOps == 3
\* Number of cached reads that go on to call makeRequest.
MaxFetches == 2
\* Number of getOverallStatus calls made one after the other.
MaxStatusCalls == 2
\* Number of lines of an issue comment.
MaxLines == 2
\* Number of requests the dispatcher receives one after the other.
MaxSequence == 2
\* Number of timer firings.
MaxFirings == 3
\* Number of tokens (members and whitespace) in a webhook body.
MaxBodyLen == 2
\* Number of webhook requests served one after the other.
MaxRequests == 1

Callers == 1..NumCallers
\* The call chains that use the cached read operations: two, so that reads
\* can overlap.
Readers == {1, 2}

----------------------------------------------------------------------------
(* Rate-limited clients                                                    *)

Clients == {"coindesk", "coingecko", "arkhamIntel"}

\* this.rateLimitDelay as set by each constructor.
rateLimitDelay(c) ==
  CASE c = "coindesk"    -> 1000
    [] c = "coingecko"   -> IF apiKey[c] THEN 100 ELSE 1000
    [] c = "arkhamIntel" -> 500

requiresApiKey_never(c) == FALSE

\* ArkhamIntelService.makeRequest refuses to run without an API key; the
\* other two clients run unauthenticated.
requiresApiKey(c) == c = "arkhamIntel"

sleepDuration_tooShort(c, timeSinceLastRequest) == timeSinceLastRequest

\* Duration handed to setTimeout when the previous request is too recent.
sleepDuration(c, timeSinceLastRequest) == rateLimitDelay(c) - timeSinceLastRequest

\* lastRequestTime = Date.now(); client.get(...) : record the time and issue
\* the HTTP request in the same synchronous segment.
issueRequest(p, c) ==
  /\ lastRequestTime' = [lastRequestTime EXCEPT ![c] = now]
  /\ issued' = [issued EXCEPT ![c] =
                   Append(@, [caller |-> p, calledAt |-> nowAtCall[p], at |-> now])]
  /\ attempts' = [attempts EXCEPT ![p] = @ + 1]
  /\ pc' = [pc EXCEPT ![p] = "inflight"]

RECURSIVE SumOver(_, _)
SumOver(f, S) ==
  IF S = {} THEN 0
  ELSE LET x == CHOOSE y \in S : TRUE IN f[x] + SumOver(f, S \ {x})

\* Calls that have issued their request or are waiting to issue it.
callsStarted ==
  SumOver([c \in Clients |-> Len(issued[c])], Clients)
    + Cardinality({p \in Callers : pc[p] = "sleeping"})

\* makeRequest up to its first suspension point.
makeRequest(p, c) ==
  /\ pc[p] = "idle"
  /\ callClient' = [callClient EXCEPT ![p] = c]
  /\ IF requiresApiKey(c) /\ ~apiKey[c]
     THEN /\ result' = [result EXCEPT ![p] = "config_error"]
          /\ attempts' = [attempts EXCEPT ![p] = 0]
          /\ UNCHANGED <<lastRequestTime, pc, nowAtCall, wakeAt, issued>>
     ELSE LET timeSinceLastRequest == now - lastRequestTime[c] IN
          IF timeSinceLastRequest < rateLimitDelay(c)
          THEN /\ pc' = [pc EXCEPT ![p] = "sleeping"]
               /\ nowAtCall' = [nowAtCall EXCEPT ![p] = now]
               /\ wakeAt' = [wakeAt EXCEPT ![p] = now + sleepDuration(c, timeSinceLastRequest)]
               /\ attempts' = [attempts EXCEPT ![p] = 0]
               /\ result' = [result EXCEPT ![p] = "pending"]
               /\ UNCHANGED <<lastRequestTime, issued>>
          ELSE /\ lastRequestTime' = [lastRequestTime EXCEPT ![c] = now]
               /\ issued' = [issued EXCEPT ![c] =
                                Append(@, [caller |-> p, calledAt |-> now, at |-> now])]
               /\ attempts' = [attempts EXCEPT ![p] = 1]
               /\ pc' = [pc EXCEPT ![p] = "inflight"]
               /\ result' = [result EXCEPT ![p] = "pending"]
               /\ UNCHANGED <<nowAtCall, wakeAt>>
  /\ UNCHANGED <<now, apiKey>>

timerExpires_checksAgain(p) ==
  /\ pc[p] = "sleeping"
  /\ now >= wakeAt[p]
  /\ IF now - lastRequestTime[callClient[p]] < rateLimitDelay(callClient[p])
     THEN /\ wakeAt' = [wakeAt EXCEPT ![p] =
                          lastRequestTime[callClient[p]] + rateLimitDelay(callClient[p])]
          /\ UNCHANGED <<lastRequestTime, issued, attempts, pc, nowAtCall>>
     ELSE /\ issueRequest(p, callClient[p])
          /\ wakeAt' = [wakeAt EXCEPT ![p] = 0]
          /\ nowAtCall' = [nowAtCall EXCEPT ![p] = 0]
  /\ UNCHANGED <<now, apiKey, callClient, result>>

\* The setTimeout of the pacing delay expires (never early, possibly late)
\* and makeRequest resumes: it records Date.now() and issues the request.
timerExpires(p) ==
  /\ pc[p] = "sleeping"
  /\ now >= wakeAt[p]
  /\ issueRequest(p, callClient[p])
  /\ wakeAt' = [wakeAt EXCEPT ![p] = 0]
  /\ nowAtCall' = [nowAtCall EXCEPT ![p] = 0]
  /\ UNCHANGED <<now, apiKey, callClient, result>>

requestSettles_retries(p, ok) ==
  /\ pc[p] = "inflight"
  /\ IF ok
     THEN /\ pc' = [pc EXCEPT ![p] = "idle"]
          /\ result' = [result EXCEPT ![p] = "data"]
          /\ UNCHANGED <<lastRequestTime, attempts, issued>>
     ELSE /\ issueRequest(p, callClient[p])
          /\ UNCHANGED result
  /\ UNCHANGED <<now, apiKey, callClient, nowAtCall, wakeAt>>

\* The HTTP call settles: a 2xx response is returned, anything else
\* (non-2xx, transport failure, timeout) is logged and re-thrown.
requestSettles(p, ok) ==
  /\ pc[p] = "inflight"
  /\ pc' = [pc EXCEPT ![p] = "idle"]
  /\ result' = [result EXCEPT ![p] = IF ok THEN "data" ELSE "error"]
  /\ UNCHANGED <<now, apiKey, lastRequestTime, callClient, nowAtCall, wakeAt, attempts, issued>>

\* ArkhamIntelService.healthCheck: it looks at the API key and returns
\* without a request and without touching the client's state.
arkhamHealthCheck(p) ==
  /\ pc[p] = "idle"
  /\ callClient' = [callClient EXCEPT ![p] = "arkhamIntel"]
  /\ result' = [result EXCEPT ![p] = IF apiKey["arkhamIntel"] THEN "healthy" ELSE "unavailable"]
  /\ UNCHANGED <<now, apiKey, lastRequestTime, pc, nowAtCall, wakeAt, attempts, issued>>

\* Time passes (observed up to BootTime + horizon).
Tick(horizon) ==
  /\ \E d \in TickSteps :
       /\ now + d <= BootTime + horizon
       /\ now' = now + d
  /\ UNCHANGED <<clientVars, cacheVars, schedVars, histVars, hookVars, appVars>>

\* The state of the three API clients right after construction.
clientsConstructed ==
  /\ apiKey \in [Clients -> BOOLEAN]
  /\ lastRequestTime = [c \in Clients |-> 0]
  /\ pc = [p \in Callers |-> "idle"]
  /\ callClient = [p \in Callers |-> "coindesk"]
  /\ nowAtCall = [p \in Callers |-> 0]
  /\ wakeAt = [p \in Callers |-> 0]
  /\ attempts = [p \in Callers |-> 0]
  /\ result = [p \in Callers |-> "none"]
  /\ issued = [c \in Clients |-> <<>>]

----------------------------------------------------------------------------
(* TTL caches                                                              *)

\* Every service singleton owns one cache Map.
Stores == {"coindesk", "coingecko", "arkhamIntel",
           "gasEstimation", "networkMonitoring", "defiMonitoring"}

\* DeFiMonitoringService.setCachedData has no clean-up branch.
hasTrim(s) == s # "defiMonitoring"

\* The size above which setCachedData cleans up: if (this.cache.size > N).
\* The DeFi store has no such test; the largest ceiling of the other stores
\* serves as its reference size.
cacheCeiling(s) == IF s \in {"coindesk", "gasEstimation"} THEN 50 ELSE 100

\* The number of keys one clean-up deletes: keys().slice(0, N).
trimCount(s) == IF s \in {"coindesk", "gasEstimation"} THEN 10 ELSE 20

\* Cached payloads; Null is JavaScript's null, NoEntry marks "never set".
Null == "null"
NoEntry == <<>>
Values == {"v1", "v2"}
\* Freshness windows passed to getCachedData.
MaxAges == {250, 1000}
CacheKeys == 1..(cacheCeiling("coingecko") + MaxCacheOps + 1)

keysOf(store) == {store[i].key : i \in 1..Len(store)}
indexOf(store, k) == CHOOSE i \in 1..Len(store) : store[i].key = k

mapSet_movesToEnd(store, k, entry) ==
  Append(SelectSeq(store, LAMBDA e : e.key # k), entry)

\* Map.prototype.set: an existing key keeps its position, a new key goes last.
mapSet(store, k, entry) ==
  IF k \in keysOf(store)
  THEN [store EXCEPT ![indexOf(store, k)] = entry]
  ELSE Append(store, entry)

mapDelete_keepsEntry(store, k) == store

\* Map.prototype.delete.
mapDelete(store, k) ==
  SelectSeq(store, LAMBDA e : e.key # k)

isExpired_inclusive(age, maxAge) == age >= maxAge

\* Date.now() - cached.timestamp > maxAge
isExpired(age, maxAge) == age > maxAge

trimOldest_newest(store, n) ==
  IF Len(store) <= n THEN <<>> ELSE SubSeq(store, 1, Len(store) - n)

\* Array.from(this.cache.keys()).slice(0, n).forEach(delete)
trimOldest(store, n) ==
  IF Len(store) <= n THEN <<>> ELSE SubSeq(store, n + 1, Len(store))

\* The store after setCachedData(key, data).
storeAfterSet(s, k, v) ==
  LET stored == mapSet(cache[s], k, [key |-> k, data |-> v, timestamp |-> now]) IN
  IF hasTrim(s) /\ Len(stored) > cacheCeiling(s)
  THEN trimOldest(stored, trimCount(s))
  ELSE stored

\* setCachedData(key, data)
setCachedData(s, k, v) ==
  /\ cacheOp.count < MaxCacheOps
  /\ cacheOp.store = s
  /\ cache' = [cache EXCEPT ![s] = storeAfterSet(s, k, v)]
  /\ LET kept == keysOf(storeAfterSet(s, k, v)) IN
     latest' = [latest EXCEPT ![s] =
       [x \in DOMAIN latest[s] \cup {k} |->
          LET e == IF x = k THEN [data |-> v, timestamp |-> now, removedAt |-> 0]
                   ELSE latest[s][x] IN
          IF e.removedAt = 0 /\ x \notin kept
          THEN [e EXCEPT !.removedAt = cacheOp.count + 1]
          ELSE e]]
  /\ cacheOp' = [op |-> "set", store |-> s, key |-> k, maxAge |-> 0, at |-> now,
                 value |-> v, count |-> cacheOp.count + 1]
  /\ UNCHANGED <<now, clientVars, reading, readOp>>

\* getCachedData(key, maxAge)
getCachedData(s, k, maxAge) ==
  /\ cacheOp.count < MaxCacheOps
  /\ cacheOp.store = s
  /\ IF k \notin keysOf(cache[s])
     THEN /\ cacheOp' = [op |-> "get", store |-> s, key |-> k, maxAge |-> maxAge, at |-> now,
                         value |-> Null, count |-> cacheOp.count + 1]
          /\ UNCHANGED <<cache, latest>>
     ELSE LET cached == cache[s][indexOf(cache[s], k)] IN
          IF isExpired(now - cached.timestamp, maxAge)
          THEN /\ cache' = [cache EXCEPT ![s] = mapDelete(@, k)]
               /\ latest' = [latest EXCEPT ![s] =
                    [x \in DOMAIN latest[s] |->
                       IF x = k /\ latest[s][x].removedAt = 0
                       THEN [latest[s][x] EXCEPT !.removedAt = cacheOp.count + 1]
                       ELSE latest[s][x]]]
               /\ cacheOp' = [op |-> "get", store |-> s, key |-> k, maxAge |-> maxAge, at |-> now,
                              value |-> Null, count |-> cacheOp.count + 1]
          ELSE /\ cacheOp' = [op |-> "get", store |-> s, key |-> k, maxAge |-> maxAge, at |-> now,
                              value |-> cached.data, count |-> cacheOp.count + 1]
               /\ UNCHANGED <<cache, latest>>
  /\ UNCHANGED <<now, clientVars, reading, readOp>>

\* The keys of every store were inserted in the order the store holds them.
insertedAsStored ==
  insertions = [s \in DOMAIN cache |-> [i \in 1..Len(cache[s]) |-> cache[s][i].key]]

\* No cached read has been called yet.
noReadsYet ==
  /\ reading = [p \in Callers |-> 0]
  /\ readOp = [caller |-> 0, fresh |-> FALSE, parity |-> 0]

\* What getCachedData(key, maxAge) returns, and the Map it leaves.
cachedValue(s, k, maxAge) ==
  IF k \notin keysOf(cache[s]) THEN Null
  ELSE LET cached == cache[s][indexOf(cache[s], k)] IN
       IF isExpired(now - cached.timestamp, maxAge) THEN Null ELSE cached.data

storeAfterGet(s, k, maxAge) ==
  IF k \notin keysOf(cache[s]) THEN cache[s]
  ELSE LET cached == cache[s][indexOf(cache[s], k)] IN
       IF isExpired(now - cached.timestamp, maxAge) THEN mapDelete(cache[s], k) ELSE cache[s]

\* response.data of a 2xx answer: a JSON document, which may be null.
ResponseBodies == {"v1", Null}


\* if (cached) return cached;
isTruthy(v) == v # Null

\* Cache keys the cached read operations of a client use (one per endpoint
\* and argument), and the freshness window each passes to getCachedData.
ReadKeys == {1, 2}
readMaxAge(k) == IF k = 1 THEN 250 ELSE 1000

\* A cached read operation (getCurrentBitcoinPrice, getTopCryptos,
\* analyzeAddress, ...) up to its first suspension point: it returns what
\* getCachedData gave when that is truthy, and calls makeRequest otherwise.
cachedRead(p, c, k) ==
  /\ pc[p] = "idle"
  /\ LET cached == cachedValue(c, k, readMaxAge(k)) IN
       /\ cache' = [cache EXCEPT ![c] = storeAfterGet(c, k, readMaxAge(k))]
       /\ readOp' = [caller |-> p,
                     fresh  |-> k \in keysOf(storeAfterGet(c, k, readMaxAge(k))),
                     parity |-> 1 - readOp.parity]
       /\ IF isTruthy(cached)
          THEN /\ result' = [result EXCEPT ![p] = "cached"]
               /\ callClient' = [callClient EXCEPT ![p] = c]
               /\ UNCHANGED <<now, apiKey, lastRequestTime, pc, nowAtCall, wakeAt,
                              attempts, issued, reading>>
          ELSE /\ makeRequest(p, c)
               /\ reading' = [reading EXCEPT ![p] =
                                IF requiresApiKey(c) /\ ~apiKey[c] THEN 0 ELSE k]
  /\ UNCHANGED <<latest, cacheOp>>

readSettles_cachesFailure(p, ok, data) ==
  /\ reading[p] # 0 /\ requestSettles(p, ok)
  /\ cache' = [cache EXCEPT ![callClient[p]] = storeAfterSet(callClient[p], reading[p], data)]
  /\ reading' = [reading EXCEPT ![p] = 0]
  /\ UNCHANGED <<latest, cacheOp, readOp>>

\* The request of a cached read settles: on success the data is stored with
\* setCachedData and returned, on failure the error is logged and re-thrown.
readSettles(p, ok, data) ==
  /\ reading[p] # 0
  /\ requestSettles(p, ok)
  /\ cache' = [cache EXCEPT ![callClient[p]] =
                 IF ok THEN storeAfterSet(callClient[p], reading[p], data) ELSE @]
  /\ reading' = [reading EXCEPT ![p] = 0]
  /\ UNCHANGED <<latest, cacheOp, readOp>>

\* The caches right after construction: every Map is empty.
cachesConstructed ==
  /\ cache = [s \in Stores |-> <<>>]
  /\ latest = [s \in Stores |-> <<>>]
  /\ cacheOp = [op |-> "none", store |-> "none", key |-> 0, maxAge |-> 0, at |-> 0,
                value |-> Null, count |-> 0]
  /\ noReadsYet
  /\ insertedAsStored

----------------------------------------------------------------------------
(* Task runner (ScheduledTasks over node-cron)                             *)

\* The tasks start() registers, in registration order.
builtinTasks == <<"gas-monitoring", "market-data", "defi-monitoring",
                  "network-monitoring", "health-check">>
\* Names under which callers of addTask register their own tasks.
UserTasks == {"t1", "t2", "t3"}
\* A task function either resolves or rejects; the built-in ones catch the
\* failure of their job themselves and always resolve.
UserHandlers == {"succeeds", "fails"}
BuiltinHandler == "builtin"

\* No method of the runner was called by the last step.
NoCall == [op |-> "none", wasRunning |-> FALSE, name |-> "none"]

cronStop_leavesRunning(task) == task

\* task.stop() on a cron task.
cronStop(task) == [task EXCEPT !.scheduled = FALSE]

orphanOf_stillStarted(name, task) == {[name |-> name, handler |-> task.handler]}

\* A cron task that leaves the registry: if it is still started, node-cron
\* keeps firing it although no name maps to it any more.
orphanOf(name, task) ==
  IF task.scheduled THEN {[name |-> name, handler |-> task.handler]} ELSE {}

registryAfterAdd_keepsPrevious(reg, name, handler, running) ==
  [tasks   |-> [n \in DOMAIN reg.tasks \cup {name} |->
                  IF n = name THEN [handler |-> handler, scheduled |-> running]
                  ELSE reg.tasks[n]],
   orphans |-> IF name \in DOMAIN reg.tasks
               THEN reg.orphans \cup orphanOf(name, reg.tasks[name])
               ELSE reg.orphans]

\* addTask(name, schedule, taskFunction) applied to a registry: the previous
\* cron task of that name is stopped, a new cron task is created with
\* scheduled: this.isRunning, and the name is mapped to the new task.
registryAfterAdd(reg, name, handler, running) ==
  [tasks   |-> [n \in DOMAIN reg.tasks \cup {name} |->
                  IF n = name THEN [handler |-> handler, scheduled |-> running]
                  ELSE reg.tasks[n]],
   orphans |-> IF name \in DOMAIN reg.tasks
               THEN reg.orphans \cup orphanOf(name, cronStop(reg.tasks[name]))
               ELSE reg.orphans]

\* The five addTask calls of start(), in order.
RECURSIVE registryAfterBuiltins(_, _, _)
registryAfterBuiltins(reg, i, running) ==
  IF i > Len(builtinTasks) THEN reg
  ELSE registryAfterBuiltins(
         registryAfterAdd(reg, builtinTasks[i], BuiltinHandler, running), i + 1, running)

\* The cron tasks registered under the given names are stopped: the timer
\* callbacks in progress go on; it is recorded, for each firing in progress
\* of one of these cron tasks, how its cron task ended.
cutOffAfterStop(names, how) ==
  cutOff \cup {[name |-> f.name, handler |-> f.handler, how |-> how] :
                 f \in {g \in firings : /\ g.name \in names
                                         /\ \A c \in cutOff : c.name # g.name \/ c.handler # g.handler}}

addTask_interrupts(name, handler) ==
  /\ LET reg == registryAfterAdd([tasks |-> tasks, orphans |-> orphans],
                                 name, handler, isRunning) IN
       /\ tasks' = reg.tasks
       /\ orphans' = reg.orphans
  /\ replaced' = (replaced \/ (name \in DOMAIN tasks /\ tasks[name].scheduled))
  /\ firings' = {f \in firings : f.name # name}
  /\ UNCHANGED <<now, isRunning, reports, escaped>>

\* addTask(name, schedule, taskFunction)
addTask(name, handler) ==
  /\ LET reg == registryAfterAdd([tasks |-> tasks, orphans |-> orphans],
                                 name, handler, isRunning) IN
       /\ tasks' = reg.tasks
       /\ orphans' = reg.orphans
  /\ replaced' = (replaced \/ (name \in DOMAIN tasks /\ tasks[name].scheduled))
  /\ UNCHANGED <<now, isRunning, firings, reports, escaped>>

\* start(): returns at once when already running; otherwise registers the
\* built-in tasks (isRunning is still false while it does) and then sets
\* isRunning.
start_registersAgain ==
  /\ LET reg == registryAfterBuiltins([tasks |-> tasks, orphans |-> orphans],
                                      1, isRunning) IN
       /\ tasks' = reg.tasks
       /\ orphans' = reg.orphans
       /\ isRunning' = TRUE
  /\ UNCHANGED <<now, firings, reports, escaped, replaced>>

start ==
  /\ IF isRunning
     THEN UNCHANGED <<isRunning, tasks, orphans>>
     ELSE LET reg == registryAfterBuiltins([tasks |-> tasks, orphans |-> orphans],
                                           1, isRunning) IN
            /\ tasks' = reg.tasks
            /\ orphans' = reg.orphans
            /\ isRunning' = TRUE
  /\ UNCHANGED <<now, firings, reports, escaped, replaced>>

stop_clearsAlways ==
  /\ orphans' = orphans \cup
                   UNION {orphanOf(n, cronStop(tasks[n])) : n \in DOMAIN tasks}
  /\ tasks' = <<>>
  /\ isRunning' = FALSE
  /\ UNCHANGED <<now, firings, reports, escaped, replaced>>

stop_interrupts ==
  /\ IF ~isRunning
     THEN UNCHANGED <<isRunning, tasks, orphans, firings>>
     ELSE /\ orphans' = orphans \cup
                          UNION {orphanOf(n, cronStop(tasks[n])) : n \in DOMAIN tasks}
          /\ tasks' = <<>>
          /\ isRunning' = FALSE
          /\ firings' = {}
  /\ UNCHANGED <<now, reports, escaped, replaced>>

\* stop(): returns at once when not running; otherwise stops every registered
\* cron task, clears the registry and resets isRunning.
stop ==
  /\ IF ~isRunning
     THEN UNCHANGED <<isRunning, tasks, orphans>>
     ELSE /\ orphans' = orphans \cup
                          UNION {orphanOf(n, cronStop(tasks[n])) : n \in DOMAIN tasks}
          /\ tasks' = <<>>
          /\ isRunning' = FALSE
  /\ UNCHANGED <<now, firings, reports, escaped, replaced>>

\* The cron tasks node-cron fires: the started ones, registered or not.
activeTimers ==
  {[name |-> n, handler |-> tasks[n].handler] : n \in {x \in DOMAIN tasks : tasks[x].scheduled}}
    \cup orphans

firingsStarted == BagCardinality(reports) + Cardinality(firings) + escaped

timerFires_unregisters(t) ==
  /\ t \in activeTimers
  /\ firingsStarted < MaxFirings
  /\ \A f \in firings : f.name # t.name \/ f.handler # t.handler
  /\ firings' = firings \cup {[name |-> t.name, handler |-> t.handler, startTime |-> now]}
  /\ tasks' = [n \in DOMAIN tasks \ {t.name} |-> tasks[n]]
  /\ UNCHANGED <<now, isRunning, orphans, reports, escaped, replaced>>

\* node-cron fires a started cron task at its next scheduled time: the
\* callback records startTime and calls the task function.  (A cron task is
\* followed through one firing at a time.)
timerFires(t) ==
  /\ t \in activeTimers
  /\ firingsStarted < MaxFirings
  /\ \A f \in firings : f.name # t.name \/ f.handler # t.handler
  /\ firings' = firings \cup {[name |-> t.name, handler |-> t.handler, startTime |-> now]}
  /\ UNCHANGED <<now, isRunning, tasks, orphans, reports, escaped, replaced>>

firingOutcome_rethrows(raised) == IF raised THEN "escaped" ELSE "performance"

\* try { await taskFunction(); logger.performance } catch { logger.error }
firingOutcome(raised) == IF raised THEN "error" ELSE "performance"

firingSettles_reportsSuccess(f, jobFailed) ==
  /\ f \in firings
  /\ f.handler # BuiltinHandler => jobFailed = (f.handler = "fails")
  /\ firings' = firings \ {f}
  /\ reports' = reports (+) SetToBag(
         {[name |-> f.name, handler |-> f.handler, kind |-> "performance",
           jobFailed |-> jobFailed, duration |-> now - f.startTime, cutOff |-> "no"]})
  /\ UNCHANGED <<now, isRunning, tasks, orphans, escaped, replaced>>

\* The task function of a firing settles and the callback logs the outcome
\* with the elapsed duration.
firingSettles(f, jobFailed) ==
  /\ f \in firings
  /\ LET raised == f.handler = "fails"
         outcome == firingOutcome(raised)
     IN /\ f.handler # BuiltinHandler => jobFailed = raised
        /\ firings' = firings \ {f}
        /\ IF outcome = "escaped"
           THEN /\ escaped' = escaped + 1
                /\ UNCHANGED reports
           ELSE /\ reports' = reports (+) SetToBag(
                       {[name |-> f.name, handler |-> f.handler, kind |-> outcome,
                         jobFailed |-> jobFailed, duration |-> now - f.startTime,
                         cutOff |-> IF \E c \in cutOff : c.name = f.name /\ c.handler = f.handler
                                    THEN (CHOOSE c \in cutOff :
                                            c.name = f.name /\ c.handler = f.handler).how
                                    ELSE "no"]})
                /\ UNCHANGED escaped
  /\ UNCHANGED <<now, isRunning, tasks, orphans, replaced>>

\* The runner right after construction.
runnerConstructed ==
  /\ isRunning = FALSE
  /\ tasks = <<>>
  /\ orphans = {}
  /\ firings = {}
  /\ reports = EmptyBag
  /\ escaped = 0
  /\ replaced = FALSE
  /\ cutOff = {}
  /\ called = NoCall

----------------------------------------------------------------------------
(* Side effects of the event handlers                                      *)

\* The awaited calls an event handler makes for a payload that triggers all
\* of them (a push with contract files, an opened pull request with contract
\* files, a created repository, an added repository, an opened issue with
\* crypto content, a created comment with one 'analyze' command), as the
\* sequence of its blocks: a guarded block is the body of a try whose catch
\* only logs, an unguarded one is not inside any try of the handler.
handlerBlocks(event) ==
  CASE event = "push" ->
         <<[guarded |-> TRUE, calls |-> <<"gasAnalysis">>],
           [guarded |-> TRUE, calls |-> <<"networkUpdate">>]>>
    [] event = "pull_request" ->
         <<[guarded |-> FALSE, calls |-> <<"tokenFetch">>],
           [guarded |-> TRUE, calls |-> <<"listFiles", "commentPost">>]>>
    [] event = "repository" ->
         <<[guarded |-> TRUE, calls |-> <<"initRepo">>]>>
    [] event = "installation_repositories" ->
         <<[guarded |-> TRUE, calls |-> <<"initRepo">>]>>
    [] event = "issues" ->
         <<[guarded |-> TRUE, calls |-> <<"tokenFetch", "labelCall">>]>>
    [] event = "issue_comment" ->
         <<[guarded |-> FALSE, calls |-> <<"tokenFetch">>],
           [guarded |-> TRUE, calls |-> <<"gasAnalysis">>],
           [guarded |-> TRUE, calls |-> <<"commentPost">>]>>
    [] OTHER -> <<>>

\* The calls the handler of an event can make.
callsOf(event) ==
  UNION {{handlerBlocks(event)[i].calls[j] : j \in 1..Len(handlerBlocks(event)[i].calls)} :
           i \in 1..Len(handlerBlocks(event))}

\* The calls of one block that are made when those in failing raise: the
\* calls up to and including the first failing one.
RECURSIVE callsMade(_, _)
callsMade(calls, failing) ==
  IF calls = <<>> THEN {}
  ELSE IF Head(calls) \in failing THEN {Head(calls)}
  ELSE {Head(calls)} \cup callsMade(Tail(calls), failing)

blockFails(calls, failing) == \E i \in 1..Len(calls) : calls[i] \in failing

\* The handler runs its blocks in order: a failure inside a guarded block is
\* logged and the handler goes on with the next block; a failure in an
\* unguarded block leaves the handler as a rejection.
RECURSIVE runBlocks(_, _)
runBlocks(blocks, failing) ==
  IF blocks = <<>> THEN [attempted |-> {}, raised |-> FALSE]
  ELSE LET b == Head(blocks) IN
       IF blockFails(b.calls, failing) /\ ~b.guarded
       THEN [attempted |-> callsMade(b.calls, failing), raised |-> TRUE]
       ELSE LET rest == runBlocks(Tail(blocks), failing) IN
            [attempted |-> callsMade(b.calls, failing) \cup rest.attempted,
             raised    |-> rest.raised]

\* No handler has run.
effectsConstructed ==
  effects = [failing |-> {}, attempted |-> {}, raised |-> FALSE]

----------------------------------------------------------------------------
(* Webhook dispatcher (express route + WebhookHandler)                     *)

\* The text of a JSON body is a sequence of tokens: members "k": v and
\* insignificant whitespace.
Whitespace == [k |-> " ", v |-> 0]
BodyTokens == {[k |-> "a", v |-> 1], [k |-> "a", v |-> 2], Whitespace}
RawBodies == UNION {[1..n -> BodyTokens] : n \in 0..MaxBodyLen}

\* express.json(): JSON.parse of the raw text. Whitespace is dropped, a key
\* keeps the position of its first occurrence and the value of its last.
RECURSIVE parseTokens(_, _)
parseTokens(text, obj) ==
  IF text = <<>> THEN obj
  ELSE LET t == Head(text) IN
       parseTokens(Tail(text),
         IF t = Whitespace THEN obj
         ELSE [order |-> IF t.k \in DOMAIN obj.val THEN obj.order ELSE Append(obj.order, t.k),
               val   |-> [x \in DOMAIN obj.val \cup {t.k} |->
                            IF x = t.k THEN t.v ELSE obj.val[x]]])

JsonParse(text) == parseTokens(text, [order |-> <<>>, val |-> <<>>])

\* JSON.stringify(payload): the members in property order, no whitespace.
JsonStringify(obj) == [i \in 1..Len(obj.order) |-> [k |-> obj.order[i], v |-> obj.val[obj.order[i]]]]

\* The x-hub-signature-256 header: absent, 'sha256=' followed by the hex
\* HMAC-SHA256 of a text under a key, or any other string of some length.
NoSecret == ""
SigningKeys == {"s1", "s2"}
\* Length of 'sha256=' plus 64 hex digits.
digestLength == 71
NoSignature == [kind |-> "none", key |-> "", msg |-> <<>>, len |-> 0]
hmacHeader(key, text) == [kind |-> "hmac", key |-> key, msg |-> text, len |-> digestLength]
otherHeader(n) == [kind |-> "other", key |-> "", msg |-> <<>>, len |-> n]
Signatures ==
  {NoSignature}
    \cup {hmacHeader(key, text) : key \in SigningKeys, text \in RawBodies}
    \cup {otherHeader(n) : n \in {10, digestLength}}

\* crypto.timingSafeEqual(a, b): throws when the lengths differ.
timingSafeEqual(a, b) ==
  IF a.len # b.len THEN "throws"
  ELSE IF a = b THEN "true" ELSE "false"

verifySignature_lengthOnly(payload, signature, sec) ==
  IF signature = NoSignature \/ sec = NoSecret THEN "false"
  ELSE IF signature.len = digestLength THEN "true" ELSE "throws"

\* verifySignature(payload, signature, secret)
verifySignature(payload, signature, sec) ==
  IF signature = NoSignature \/ sec = NoSecret THEN "false"
  ELSE timingSafeEqual(signature, hmacHeader(sec, JsonStringify(payload)))

\* The own properties of this.eventHandlers.
registeredEvents == {"push", "pull_request", "repository", "installation",
                     "installation_repositories", "issues", "issue_comment"}
\* Properties this.eventHandlers inherits from Object.prototype: functions
\* that return when called without a receiver, and members that are not
\* callable or throw a TypeError when called that way.
inheritedReturning == {"constructor", "toString"}
inheritedThrowing == {"__proto__", "valueOf"}
\* Values of the x-github-event header ("undefined": header absent).
Events == registeredEvents \cup inheritedReturning \cup inheritedThrowing
            \cup {"ping", "undefined"}

\* const handler = this.eventHandlers[event]
lookupHandler(event) ==
  IF event \in registeredEvents THEN "own"
  ELSE IF event \in inheritedReturning THEN "returns"
  ELSE IF event \in inheritedThrowing THEN "throws"
  ELSE "undefined"

respond_notSent(h, status, message) ==
  [h EXCEPT !.phase = "responded", !.status = status, !.message = message]

\* res.status(status).json({...}): one response is sent.
respond(h, status, message) ==
  [h EXCEPT !.phase = "responded", !.status = status, !.message = message,
            !.sent = @ + 1]

settledStatus_asAuthFailure(raised) == IF raised THEN 401 ELSE 200

\* The answer once the handler call is over: 200 after await handler(...)
\* returned, 500 from the catch block when it raised.
settledStatus(raised) == IF raised THEN 500 ELSE 200
settledMessage(raised) ==
  IF raised THEN "Internal server error" ELSE "Webhook processed successfully"

\* POST /webhooks/github: express.json() parses the body, then handle() runs
\* up to its first suspension point (await handler(...)) or its response.
requestHandled(raw, sig, event) ==
  LET verified == verifySignature(JsonParse(raw), sig, secret)
      h == [hook EXCEPT !.raw = raw, !.sig = sig, !.event = event,
                        !.verified = verified]
  IN CASE verified = "false"  -> respond(h, 401, "Invalid signature")
        [] verified = "throws" -> respond(h, 500, "Internal server error")
        [] OTHER ->
           CASE lookupHandler(event) = "own" ->
                  [h EXCEPT !.phase = "handling", !.handler = event]
             [] lookupHandler(event) = "returns" ->
                  respond([h EXCEPT !.handler = event, !.outcome = "returned"],
                          settledStatus(FALSE), settledMessage(FALSE))
             [] lookupHandler(event) = "throws" ->
                  respond([h EXCEPT !.outcome = "raised"],
                          settledStatus(TRUE), settledMessage(TRUE))
             [] OTHER ->
                  respond(h, 200, "Event acknowledged but not processed")

\* A request arrives with some body, signature header and event header.
webhookArrives ==
  /\ hook.phase = "idle"
  /\ hook.served < MaxRequests
  /\ \E raw \in RawBodies, sig \in Signatures, event \in Events :
       hook' = requestHandled(raw, sig, event)
  /\ UNCHANGED <<now, secret>>

\* A request arrives after the earlier ones were answered.
nextWebhookArrives ==
  /\ hook.phase = "idle"
  /\ hook.served < MaxSequence
  /\ \E raw \in RawBodies, sig \in Signatures, event \in Events :
       hook' = requestHandled(raw, sig, event)
  /\ UNCHANGED <<now, secret>>

\* The event handler settles: 200 when it resolved, 500 when it raised.
handlerSettles(raised) ==
  /\ hook.phase = "handling"
  /\ hook' = respond([hook EXCEPT !.outcome = IF raised THEN "raised" ELSE "returned"],
                     settledStatus(raised), settledMessage(raised))
  /\ UNCHANGED <<now, secret>>

\* The registered handler of the request runs to its end while the calls in
\* failing raise, and handle() answers.
handlerRuns(failing) ==
  /\ hook.phase = "handling"
  /\ failing \subseteq callsOf(hook.handler)
  /\ LET run == runBlocks(handlerBlocks(hook.handler), failing) IN
       /\ effects' = [failing |-> failing, attempted |-> run.attempted, raised |-> run.raised]
       /\ hook' = respond([hook EXCEPT !.outcome = IF run.raised THEN "raised" ELSE "returned"],
                          settledStatus(run.raised), settledMessage(run.raised))
  /\ UNCHANGED <<now, secret>>

requestEnds_keepsHandler ==
  /\ hook.phase = "responded"
  /\ hook' = [phase |-> "idle", raw |-> <<>>, sig |-> NoSignature, event |-> "undefined",
              verified |-> "none", handler |-> hook.handler, outcome |-> "none",
              status |-> 0, message |-> "",
              sent |-> 0, served |-> hook.served + 1,
              failedBefore |-> hook.failedBefore \/ hook.status \in {401, 500}]
  /\ UNCHANGED <<now, secret>>

\* The request is over; nothing of it is kept (served and failedBefore are
\* history: the number of requests answered, and whether one of them was
\* answered 401 or 500).
requestEnds ==
  /\ hook.phase = "responded"
  /\ hook' = [phase |-> "idle", raw |-> <<>>, sig |-> NoSignature, event |-> "undefined",
              verified |-> "none", handler |-> "none", outcome |-> "none",
              status |-> 0, message |-> "",
              sent |-> 0, served |-> hook.served + 1,
              failedBefore |-> hook.failedBefore \/ hook.status \in {401, 500}]
  /\ UNCHANGED <<now, secret>>

\* The dispatcher right after construction: no request yet.
dispatcherConstructed ==
  hook = [phase |-> "idle", raw |-> <<>>, sig |-> NoSignature, event |-> "undefined",
          verified |-> "none", handler |-> "none", outcome |-> "none",
          status |-> 0, message |-> "", sent |-> 0, served |-> 0,
          failedBefore |-> FALSE]

----------------------------------------------------------------------------
(* Bot commands in issue comments (handleIssueComment, handleBotMention)   *)

\* A line of a comment body: whether it contains '@crypto-intel-bot', and the
\* word (\w+) that follows the mention and white space, "" when none does.
CommandWords == {"analyze", "monitor", "status", "help", "Status"}
CommentLines ==
  {[mention |-> TRUE, word |-> w] : w \in CommandWords \cup {""}}
    \cup {[mention |-> FALSE, word |-> "status"]}
CommentBodies == UNION {[1..n -> CommentLines] : n \in 1..MaxLines}

\* parseBotCommands(commentBody): one command per line that contains the
\* mention and matches /@crypto-intel-bot\s+(\w+)(?:\s+(.+))?/, in line order.
RECURSIVE parseBotCommands(_)
parseBotCommands(lines) ==
  IF lines = <<>> THEN <<>>
  ELSE LET line == Head(lines) IN
       (IF line.mention /\ line.word # "" THEN <<line.word>> ELSE <<>>)
         \o parseBotCommands(Tail(lines))

commandAction_caseInsensitive(cmd) ==
  CASE cmd = "analyze" -> "gasAnalysis"
    [] cmd = "monitor" -> "networkMonitoring"
    [] cmd \in {"status", "Status"} -> "overallStatus"
    [] OTHER           -> "none"

\* switch (cmd): the action awaited for a command word, "none" for default.
commandAction(cmd) ==
  CASE cmd = "analyze" -> "gasAnalysis"
    [] cmd = "monitor" -> "networkMonitoring"
    [] cmd = "status"  -> "overallStatus"
    [] OTHER           -> "none"

\* The reply text after the action of a command returned.
successReply(action) ==
  CASE action = "gasAnalysis"       -> "Gas analysis started"
    [] action = "networkMonitoring" -> "Network monitoring activated"
    [] action = "overallStatus"     -> "Current Status: <health payload>"

\* An issue_comment event is handled: for a created comment that mentions the
\* bot the commands are parsed and, when there are any, the installation
\* client is obtained (which may raise) before the first command runs.
commentArrives(action, lines, octokitOk) ==
  /\ bot.phase = "idle"
  /\ bot' =
       IF action # "created" \/ \A i \in 1..Len(lines) : ~lines[i].mention
          \/ parseBotCommands(lines) = <<>>
       THEN [bot EXCEPT !.phase = "done", !.lines = lines]
       ELSE IF ~octokitOk
       THEN [bot EXCEPT !.phase = "raised", !.lines = lines,
                        !.commands = parseBotCommands(lines)]
       ELSE [bot EXCEPT !.phase = "running", !.lines = lines,
                        !.commands = parseBotCommands(lines), !.next = 1]

\* executeBotCommand up to its first await: the action of the command, or
\* the 'Unknown command' reply.
commandStarts ==
  /\ bot.phase = "running"
  /\ bot.waiting = "none"
  /\ LET action == commandAction(bot.commands[bot.next]) IN
     bot' = IF action = "none"
            THEN [bot EXCEPT !.waiting = "reply", !.replyText = "Unknown command"]
            ELSE [bot EXCEPT !.waiting = action,
                             !.invoked = Append(@, [command |-> bot.next, action |-> action])]

actionSettles_rethrows(ok) ==
  /\ bot.phase = "running"
  /\ bot.waiting \notin {"none", "reply"}
  /\ bot.waiting = "overallStatus" => ok
  /\ bot' = IF ok
            THEN [bot EXCEPT !.waiting = "reply", !.replyText = successReply(bot.waiting)]
            ELSE [bot EXCEPT !.waiting = "none", !.phase = "raised"]

\* The awaited action settles: the success text is replied when it returned,
\* the catch block replies 'Command failed' when it raised (getOverallStatus
\* catches the failures of its probes and does not raise).
actionSettles(ok) ==
  /\ bot.phase = "running"
  /\ bot.waiting \notin {"none", "reply"}
  /\ bot.waiting = "overallStatus" => ok
  /\ bot' = [bot EXCEPT !.waiting = "reply",
                        !.replyText = IF ok THEN successReply(bot.waiting)
                                      ELSE "Command failed"]

\* replyToCommand settles: createComment was attempted once, and a failure is
\* logged, not raised. The loop goes on with the next command.
replySettles(delivered) ==
  /\ bot.phase = "running"
  /\ bot.waiting = "reply"
  /\ bot' = [bot EXCEPT !.waiting = "none",
                        !.replyText = "",
                        !.replies = Append(@, [command |-> bot.next, text |-> bot.replyText,
                                               delivered |-> delivered]),
                        !.next = @ + 1,
                        !.phase = IF bot.next = Len(bot.commands) THEN "done" ELSE "running"]

\* No issue comment is being handled.
botConstructed ==
  bot = [phase |-> "idle", lines |-> <<>>, commands |-> <<>>, next |-> 0,
         waiting |-> "none", replyText |-> "", invoked |-> <<>>, replies |-> <<>>]

\* No status request has been received.
endpointConstructed ==
  endpoint = [phase |-> "idle", next |-> 0, outcomes |-> <<>>, code |-> 0,
              response |-> <<>>]

\* No getOverallStatus call has been made.
aggregatorConstructed ==
  health = [phase |-> "idle", next |-> 0, entries |-> <<>>, hasErrors |-> FALSE,
            overall |-> "none", fromCache |-> {}, waiting |-> "none", calls |-> 0]

InitHook ==
  /\ now = BootTime
  /\ clientsConstructed
  /\ apiKey = [c \in Clients |-> TRUE]
  /\ cachesConstructed
  /\ runnerConstructed
  /\ dispatcherConstructed
  /\ aggregatorConstructed
  /\ botConstructed
  /\ endpointConstructed
  /\ effectsConstructed
  /\ secret \in {NoSecret, "s1"}

NextHook ==
  \/ webhookArrives /\ UNCHANGED <<clientVars, cacheVars, schedVars, histVars, appVars>>
  \/ \E raised \in BOOLEAN :
       handlerSettles(raised) /\ UNCHANGED <<clientVars, cacheVars, schedVars, histVars, appVars>>
  \/ requestEnds /\ UNCHANGED <<clientVars, cacheVars, schedVars, histVars, appVars>>

SpecHook == InitHook /\ [][NextHook]_vars

\* The dispatcher serving requests one after the other.
NextSequence ==
  \/ nextWebhookArrives /\ UNCHANGED <<clientVars, cacheVars, schedVars, histVars, appVars>>
  \/ \E raised \in BOOLEAN :
       handlerSettles(raised) /\ UNCHANGED <<clientVars, cacheVars, schedVars, histVars, appVars>>
  \/ requestEnds /\ UNCHANGED <<clientVars, cacheVars, schedVars, histVars, appVars>>

SpecSequence == InitHook /\ [][NextSequence]_vars

\* The dispatcher with well-formed payloads, whose handlers fail only in
\* their side effects.
NextEffects ==
  \/ /\ webhookArrives
     /\ effects' = [failing |-> {}, attempted |-> {}, raised |-> FALSE]
     /\ UNCHANGED <<clientVars, cacheVars, schedVars, histVars, health, bot, endpoint>>
  \/ \E failing \in SUBSET callsOf(hook.handler) :
       /\ handlerRuns(failing)
       /\ UNCHANGED <<clientVars, cacheVars, schedVars, histVars, health, bot, endpoint>>
  \/ requestEnds /\ UNCHANGED <<clientVars, cacheVars, schedVars, histVars, appVars>>

SpecEffects == InitHook /\ [][NextEffects]_vars

----------------------------------------------------------------------------
(* Health aggregator (ApiServices.getOverallStatus and the health probes)  *)

\* Object.entries(services): the six services in the order they are probed.
serviceOrder == <<"coingecko", "coindesk", "arkhamIntel",
                  "gasEstimation", "networkMonitoring", "defiMonitoring">>
NumServices == Len(serviceOrder)

\* The call chain that runs getOverallStatus.
StatusCaller == 1

\* 'btc-current-price', the key CoinDeskService.healthCheck reads through
\* getCurrentBitcoinPrice, and 'protocol-uniswap' in the DeFi store with the
\* window getProtocolData passes.
PriceKey == 1
UniswapKey == 1
ProtocolMaxAge == 1000

degrades_unlessHealthy(entryStatus) == entryStatus # "healthy"

\* if (status.services[name].status === 'error') hasErrors = true
degrades(entryStatus) == entryStatus = "error"

\* The entry getOverallStatus stores for a probe: what healthCheck returned,
\* { status: 'unknown' } for a service without healthCheck, and
\* { status: 'error' } from the catch block when the probe raised.
entryOf(outcome) ==
  CASE outcome = "raises"        -> "error"
    [] outcome = "noHealthCheck" -> "unknown"
    [] OTHER                     -> outcome

\* One iteration of the loop is over: the entry is stored, hasErrors is
\* updated, and after the last service overall is set and the status returned.
recorded(h, outcome, cachedResult) ==
  LET svc  == serviceOrder[h.next]
      e    == entryOf(outcome)
      errs == h.hasErrors \/ outcome = "raises" \/ degrades(e)
      last == h.next = NumServices
  IN [h EXCEPT !.entries = [s \in DOMAIN h.entries \cup {svc} |->
                              IF s = svc THEN e ELSE h.entries[s]],
               !.hasErrors = errs,
               !.fromCache = IF cachedResult THEN @ \cup {svc} ELSE @,
               !.waiting = "none",
               !.next = @ + 1,
               !.phase = IF last THEN "done" ELSE "running",
               !.overall = IF last THEN (IF errs THEN "degraded" ELSE "healthy") ELSE @]

\* getOverallStatus() is called: the status object starts as 'healthy' with
\* no entries.
getOverallStatus ==
  /\ health.phase \in {"idle", "done"}
  /\ health.calls < MaxStatusCalls
  /\ pc[StatusCaller] = "idle"
  /\ health' = [phase |-> "running", next |-> 1, entries |-> <<>>, hasErrors |-> FALSE,
                overall |-> "healthy", fromCache |-> {}, waiting |-> "none",
                calls |-> health.calls + 1]
  /\ UNCHANGED <<now, clientVars, cacheVars>>

\* await service.healthCheck() of the next service, up to its first
\* suspension point or, when it has none, its result:
\*  - CoinGecko pings through makeRequest;
\*  - CoinDesk reads the price through getCurrentBitcoinPrice;
\*  - Arkham looks at its API key only;
\*  - gas estimation and network monitoring ask their JSON-RPC provider;
\*  - DeFi monitoring reads the Uniswap data through getProtocolData (the
\*    Aave and Compound readers are placeholders) and is 'healthy' anyway.
probeStarts ==
  /\ health.phase = "running"
  /\ health.waiting = "none"
  /\ LET svc == serviceOrder[health.next] IN
     CASE svc = "coingecko" ->
            /\ makeRequest(StatusCaller, svc)
            /\ health' = [health EXCEPT !.waiting = "client"]
            /\ UNCHANGED cacheVars
       [] svc = "coindesk" ->
            /\ cachedRead(StatusCaller, svc, PriceKey)
            /\ health' = IF isTruthy(cachedValue(svc, PriceKey, readMaxAge(PriceKey)))
                         THEN recorded(health, "healthy", TRUE)
                         ELSE [health EXCEPT !.waiting = "client"]
       [] svc = "arkhamIntel" ->
            /\ health' = recorded(health, IF apiKey[svc] THEN "healthy" ELSE "unavailable",
                                  FALSE)
            /\ UNCHANGED <<now, clientVars, cacheVars>>
       [] svc \in {"gasEstimation", "networkMonitoring"} ->
            /\ health' = [health EXCEPT !.waiting = "rpc"]
            /\ UNCHANGED <<now, clientVars, cacheVars>>
       [] svc = "defiMonitoring" ->
            /\ cache' = [cache EXCEPT ![svc] = storeAfterGet(svc, UniswapKey, ProtocolMaxAge)]
            /\ health' = IF isTruthy(cachedValue(svc, UniswapKey, ProtocolMaxAge))
                         THEN recorded(health, "healthy", TRUE)
                         ELSE [health EXCEPT !.waiting = "subgraph"]
            /\ UNCHANGED <<now, clientVars, latest, cacheOp, reading, readOp>>

\* The request of the CoinGecko or CoinDesk probe settles (a timeout of the
\* axios client is one of the failures). healthCheck reads a property of the
\* returned data, which raises inside its try block when the data is null.
clientProbeSettles(ok, data) ==
  /\ health.phase = "running"
  /\ health.waiting = "client"
  /\ IF serviceOrder[health.next] = "coindesk"
     THEN readSettles(StatusCaller, ok, data)
     ELSE requestSettles(StatusCaller, ok) /\ UNCHANGED cacheVars
  /\ health' = recorded(health, IF ok /\ data # Null THEN "healthy" ELSE "error", FALSE)

\* provider.getBlockNumber() of the configured provider settles (ethers
\* gives up on a request after its default timeout): healthyCount > 0 or not.
rpcSettles(ok) ==
  /\ health.phase = "running"
  /\ health.waiting = "rpc"
  /\ health' = recorded(health, IF ok THEN "healthy" ELSE "error", FALSE)
  /\ UNCHANGED <<now, clientVars, cacheVars>>

\* axios.post(subgraphUrl) of getUniswapData settles; it is called on the
\* global axios, without a timeout. getProtocolData caches the data on
\* success; healthCheck reports 'healthy' whatever the outcome.
subgraphSettles(ok, data) ==
  /\ health.phase = "running"
  /\ health.waiting = "subgraph"
  /\ cache' = [cache EXCEPT !["defiMonitoring"] =
                 IF ok THEN storeAfterSet("defiMonitoring", UniswapKey, data) ELSE @]
  /\ health' = recorded(health, "healthy", FALSE)
  /\ UNCHANGED <<now, clientVars, latest, cacheOp, reading, readOp>>

----------------------------------------------------------------------------
(* The status endpoint (GET /api/status, CryptoIntelBot.getApiStatus)       *)

\* What healthCheck of a service can return: every probe catches its own
\* failures and returns { status: 'error' }, and only Arkham Intel reports
\* 'unavailable'.
ProbeResults(svc) ==
  IF svc = "arkhamIntel" THEN {"healthy", "unavailable", "error"}
  ELSE {"healthy", "error"}

\* The HealthStatus getOverallStatus returns for a sequence of probe results
\* (the timestamp is left out).
overallStatusOf(outcomes) ==
  [services |-> [i \in 1..Len(outcomes) |-> entryOf(outcomes[i])],
   overall  |-> IF \E i \in 1..Len(outcomes) :
                     outcomes[i] = "raises" \/ degrades(entryOf(outcomes[i]))
                THEN "degraded" ELSE "healthy"]

\* The object getApiStatus returns for a sequence of probe results: a
\* timestamp (left out) and the services member.
apiStatusOf(outcomes) ==
  [services |-> [i \in 1..Len(outcomes) |-> entryOf(outcomes[i])]]

\* GET /api/status arrives: getApiStatus starts its loop over the services.
statusRequested ==
  /\ endpoint.phase = "idle"
  /\ endpoint' = [endpoint EXCEPT !.phase = "probing", !.next = 1]

\* await apiServices[service].healthCheck() settles; after the last service
\* the route answers res.json(status).
apiProbeSettles(outcome) ==
  /\ endpoint.phase = "probing"
  /\ outcome \in ProbeResults(serviceOrder[endpoint.next])
  /\ LET outcomes == Append(endpoint.outcomes, outcome) IN
     endpoint' =
       IF endpoint.next = NumServices
       THEN [endpoint EXCEPT !.phase = "responded", !.outcomes = outcomes,
                             !.code = 200, !.response = apiStatusOf(outcomes)]
       ELSE [endpoint EXCEPT !.next = @ + 1, !.outcomes = outcomes]

----------------------------------------------------------------------------
(* Initial states and next-state relation of the task runner               *)

InitSched ==
  /\ now = BootTime
  /\ clientsConstructed
  /\ apiKey = [c \in Clients |-> TRUE]
  /\ cachesConstructed
  /\ runnerConstructed
  /\ dispatcherConstructed
  /\ aggregatorConstructed
  /\ botConstructed
  /\ endpointConstructed
  /\ effectsConstructed
  /\ secret = "s1"

NextSched ==
  \/ start /\ UNCHANGED <<clientVars, cacheVars, histVars, hookVars, appVars>>
  \/ stop /\ UNCHANGED <<clientVars, cacheVars, histVars, hookVars, appVars>>
  \/ \E name \in UserTasks, h \in UserHandlers :
       addTask(name, h) /\ UNCHANGED <<clientVars, cacheVars, histVars, hookVars, appVars>>
  \/ \E t \in activeTimers : timerFires(t) /\ UNCHANGED <<clientVars, cacheVars, histVars, hookVars, appVars>>
  \/ \E f \in firings, jobFailed \in BOOLEAN :
       firingSettles(f, jobFailed) /\ UNCHANGED <<clientVars, cacheVars, histVars, hookVars, appVars>>

SpecSched == InitSched /\ [][NextSched]_vars

\* The task runner observed together with the method each step called.
CalledTasks == {"t1", "t2"}

NextCalls ==
  \/ /\ start
     /\ called' = [op |-> "start", wasRunning |-> isRunning, name |-> "none"]
     /\ UNCHANGED <<clientVars, cacheVars, cutOff, insertions, hookVars, appVars>>
  \/ /\ stop
     /\ called' = [op |-> "stop", wasRunning |-> isRunning, name |-> "none"]
     /\ UNCHANGED <<clientVars, cacheVars, cutOff, insertions, hookVars, appVars>>
  \/ \E name \in CalledTasks, h \in UserHandlers :
       /\ addTask(name, h)
       /\ called' = [op |-> "addTask", wasRunning |-> isRunning, name |-> name]
       /\ UNCHANGED <<clientVars, cacheVars, cutOff, insertions, hookVars, appVars>>
  \/ \E t \in activeTimers :
       /\ timerFires(t)
       /\ called' = NoCall
       /\ UNCHANGED <<clientVars, cacheVars, cutOff, insertions, hookVars, appVars>>
  \/ \E f \in firings, jobFailed \in BOOLEAN :
       /\ firingSettles(f, jobFailed)
       /\ called' = NoCall
       /\ UNCHANGED <<clientVars, cacheVars, cutOff, insertions, hookVars, appVars>>

SpecCalls == InitSched /\ [][NextCalls]_vars

\* The task runner observed together with the history of the cron tasks
\* that were stopped while one of their firings was in progress.
ObservedTasks == {"t1", "t2"}

NextCutOff ==
  \/ /\ start
     /\ UNCHANGED <<clientVars, cacheVars, histVars, hookVars, appVars>>
  \/ /\ stop
     /\ cutOff' = IF isRunning THEN cutOffAfterStop(DOMAIN tasks, "stopped") ELSE cutOff
     /\ UNCHANGED <<clientVars, cacheVars, insertions, called, hookVars, appVars>>
  \/ \E name \in ObservedTasks, h \in UserHandlers :
       /\ addTask(name, h)
       /\ cutOff' = cutOffAfterStop({name} \cap DOMAIN tasks, "replaced")
       /\ UNCHANGED <<clientVars, cacheVars, insertions, called, hookVars, appVars>>
  \/ \E t \in activeTimers :
       timerFires(t) /\ UNCHANGED <<clientVars, cacheVars, histVars, hookVars, appVars>>
  \/ \E f \in firings, jobFailed \in BOOLEAN :
       /\ firingSettles(f, jobFailed)
       /\ cutOff' = {c \in cutOff : c.name # f.name \/ c.handler # f.handler}
       /\ UNCHANGED <<clientVars, cacheVars, insertions, called, hookVars, appVars>>

SpecCutOff == InitSched /\ [][NextCutOff]_vars

\* One task of the runner observed while time passes.
TimedTasks == {"t1"}

NextTimed ==
  \/ start /\ UNCHANGED <<clientVars, cacheVars, histVars, hookVars, appVars>>
  \/ stop /\ UNCHANGED <<clientVars, cacheVars, histVars, hookVars, appVars>>
  \/ \E name \in TimedTasks, h \in UserHandlers :
       addTask(name, h) /\ UNCHANGED <<clientVars, cacheVars, histVars, hookVars, appVars>>
  \/ \E t \in activeTimers : timerFires(t) /\ UNCHANGED <<clientVars, cacheVars, histVars, hookVars, appVars>>
  \/ \E f \in firings, jobFailed \in BOOLEAN :
       firingSettles(f, jobFailed) /\ UNCHANGED <<clientVars, cacheVars, histVars, hookVars, appVars>>
  \/ Tick(Horizon)

SpecTimed == InitSched /\ [][NextTimed]_vars

----------------------------------------------------------------------------
(* Initial states and next-state relations of the caches and the clients   *)

\* Sizes a store can have been filled to before the operations under study:
\* empty, or one below / exactly at the size where the next new key overflows.
prefillSizes(s) == {0, cacheCeiling(s) - 1, cacheCeiling(s)}

\* The stores are independent objects; a behaviour exercises one of them,
\* starting from the store as n earlier setCachedData calls of distinct keys
\* at boot time have left it.
InitCache ==
  /\ now = BootTime
  /\ clientsConstructed
  /\ apiKey = [c \in Clients |-> TRUE]
  /\ runnerConstructed
  /\ dispatcherConstructed
  /\ aggregatorConstructed
  /\ botConstructed
  /\ endpointConstructed
  /\ effectsConstructed
  /\ secret = "s1"
  /\ \E s \in Stores : \E n \in prefillSizes(s) :
       /\ cache = [x \in Stores |->
            IF x = s THEN [i \in 1..n |-> [key |-> i, data |-> "v0", timestamp |-> BootTime]]
            ELSE <<>>]
       /\ latest = [x \in Stores |-> <<>>]
       /\ cacheOp = [op |-> "none", store |-> s, key |-> 0, maxAge |-> 0, at |-> 0,
                     value |-> Null, count |-> 0]
  /\ noReadsYet
  /\ insertedAsStored

\* Keys the operations are tried on: the first key ever inserted, the newest
\* key in the store and a key that was never inserted.
opKeys(s) ==
  LET used == keysOf(cache[s]) \cup DOMAIN latest[s] IN
  {1}
    \cup (IF cache[s] = <<>> THEN {} ELSE {cache[s][Len(cache[s])].key})
    \cup {CHOOSE k \in CacheKeys : k \notin used /\ \A j \in CacheKeys \ used : k <= j}

NextCache ==
  \/ \E s \in Stores : \E k \in opKeys(s), v \in Values :
       setCachedData(s, k, v) /\ UNCHANGED <<schedVars, histVars, hookVars, appVars>>
  \/ \E s \in Stores : \E k \in opKeys(s), w \in MaxAges :
       getCachedData(s, k, w) /\ UNCHANGED <<schedVars, histVars, hookVars, appVars>>
  \/ Tick(CacheHorizon)

SpecCache == InitCache /\ [][NextCache]_vars

\* The keys of store s in the order of their insertion, after an operation
\* on key k: a key that was absent is inserted last when it is set, a key
\* that is present keeps its place, and the keys no longer stored are dropped.
insertionsAfter(s, k, isSet) ==
  LET known    == {insertions[s][i] : i \in 1..Len(insertions[s])}
      inserted == IF isSet /\ k \notin known THEN Append(insertions[s], k)
                  ELSE insertions[s]
      kept     == keysOf(cache'[s])
  IN [insertions EXCEPT ![s] = SelectSeq(inserted, LAMBDA x : x \in kept)]

\* Two stores, one of each ceiling, observed together with the order in
\* which the keys of their current entries were inserted.
TrimStores == {"coindesk", "coingecko"}

InitTrim == InitCache /\ cacheOp.store \in TrimStores

NextTrim ==
  \/ \E s \in TrimStores : \E k \in opKeys(s) :
       /\ setCachedData(s, k, "v1")
       /\ insertions' = insertionsAfter(s, k, TRUE)
       /\ UNCHANGED <<schedVars, cutOff, called, hookVars, appVars>>
  \/ \E s \in TrimStores : \E k \in opKeys(s) :
       /\ getCachedData(s, k, 250)
       /\ insertions' = insertionsAfter(s, k, FALSE)
       /\ UNCHANGED <<schedVars, cutOff, called, hookVars, appVars>>
  \/ Tick(CacheHorizon)

SpecTrim == InitTrim /\ [][NextTrim]_vars

InitClient ==
  /\ now = BootTime
  /\ clientsConstructed
  /\ cachesConstructed
  /\ runnerConstructed
  /\ dispatcherConstructed
  /\ aggregatorConstructed
  /\ botConstructed
  /\ endpointConstructed
  /\ effectsConstructed
  /\ secret = "s1"

\* The clients are independent objects; a behaviour exercises one of them:
\* every call made so far went to client c.
onlyClientUsed(c) == \A q \in Callers : result[q] = "none" \/ callClient[q] = c

\* Callers are interchangeable; they are numbered in the order of their
\* first call.
callersInOrder(p) == \A q \in Callers : q < p => result[q] # "none"

NextClient ==
  \/ \E p \in Callers, c \in Clients :
       /\ callsStarted < MaxIssued
       /\ onlyClientUsed(c)
       /\ callersInOrder(p)
       /\ makeRequest(p, c)
       /\ UNCHANGED <<cacheVars, schedVars, histVars, hookVars, appVars>>
  \/ \E p \in Callers : timerExpires(p) /\ UNCHANGED <<cacheVars, schedVars, histVars, hookVars, appVars>>
  \/ \E p \in Callers, ok \in BOOLEAN : requestSettles(p, ok) /\ UNCHANGED <<cacheVars, schedVars, histVars, hookVars, appVars>>
  \/ Tick(Horizon)

SpecClient == InitClient /\ [][NextClient]_vars

\* The callers of two clients that have their keys, followed until every
\* call that waits has issued its request.
PacedClients == {"coindesk", "arkhamIntel"}

InitPaced == InitClient /\ apiKey = [c \in Clients |-> TRUE]

NextPaced ==
  \/ \E p \in Callers, c \in PacedClients :
       /\ callsStarted < MaxIssued
       /\ onlyClientUsed(c)
       /\ callersInOrder(p)
       /\ makeRequest(p, c)
       /\ UNCHANGED <<cacheVars, schedVars, histVars, hookVars, appVars>>
  \/ \E p \in Callers : timerExpires(p) /\ UNCHANGED <<cacheVars, schedVars, histVars, hookVars, appVars>>
  \/ \E p \in Callers, ok \in BOOLEAN :
       requestSettles(p, ok) /\ UNCHANGED <<cacheVars, schedVars, histVars, hookVars, appVars>>
  \/ Tick(Horizon)

\* What is certain to happen while calls wait: the clock advances and the
\* event loop runs the callback of a timer that has expired.
FairPaced ==
  /\ WF_vars(Tick(Horizon))
  /\ \A p \in Callers :
       WF_vars(timerExpires(p) /\ UNCHANGED <<cacheVars, schedVars, histVars, hookVars, appVars>>)

SpecPaced == InitPaced /\ [][NextPaced]_vars /\ FairPaced

\* The Arkham Intel client with and without its API key.
InitArkham ==
  /\ InitClient
  /\ \A c \in Clients \ {"arkhamIntel"} : apiKey[c]

NextArkham ==
  \/ \E p \in Callers :
       /\ callsStarted < MaxIssued
       /\ makeRequest(p, "arkhamIntel")
       /\ UNCHANGED <<cacheVars, schedVars, histVars, hookVars, appVars>>
  \/ \E p \in Callers :
       arkhamHealthCheck(p) /\ UNCHANGED <<cacheVars, schedVars, histVars, hookVars, appVars>>
  \/ \E p \in Callers : timerExpires(p) /\ UNCHANGED <<cacheVars, schedVars, histVars, hookVars, appVars>>
  \/ \E p \in Callers, ok \in BOOLEAN : requestSettles(p, ok) /\ UNCHANGED <<cacheVars, schedVars, histVars, hookVars, appVars>>
  \/ Tick(Horizon)

SpecArkham == InitArkham /\ [][NextArkham]_vars

\* The cached read operations of the clients, called by concurrent callers.
InitRead ==
  /\ now = BootTime
  /\ clientsConstructed
  /\ apiKey \in {[c \in Clients |-> TRUE], [c \in Clients |-> FALSE]}
  /\ cachesConstructed
  /\ runnerConstructed
  /\ dispatcherConstructed
  /\ aggregatorConstructed
  /\ botConstructed
  /\ endpointConstructed
  /\ effectsConstructed
  /\ secret = "s1"

\* A read that misses is followed only while fewer than MaxFetches calls
\* have been started.
fetchAllowed(c, k) ==
  isTruthy(cachedValue(c, k, readMaxAge(k))) \/ callsStarted < MaxFetches

NextRead ==
  \/ \E p \in Readers, c \in Clients, k \in ReadKeys :
       /\ onlyClientUsed(c)
       /\ callersInOrder(p)
       /\ fetchAllowed(c, k)
       /\ cachedRead(p, c, k)
       /\ UNCHANGED <<schedVars, histVars, hookVars, appVars>>
  \/ \E p \in Readers : timerExpires(p) /\ UNCHANGED <<cacheVars, schedVars, histVars, hookVars, appVars>>
  \/ \E p \in Readers, ok \in BOOLEAN, data \in ResponseBodies :
       readSettles(p, ok, data) /\ UNCHANGED <<schedVars, histVars, hookVars, appVars>>
  \/ Tick(CacheHorizon)

SpecRead == InitRead /\ [][NextRead]_vars

\* The health aggregator, called by one call chain.
InitStatus ==
  /\ now = BootTime
  /\ clientsConstructed
  /\ apiKey \in {[c \in Clients |-> TRUE], [c \in Clients |-> FALSE]}
  /\ cachesConstructed
  /\ runnerConstructed
  /\ dispatcherConstructed
  /\ aggregatorConstructed
  /\ botConstructed
  /\ endpointConstructed
  /\ effectsConstructed
  /\ secret = "s1"

\* A status call is followed when the pacing delays it may wait for end
\* within the time observed.
statusObservable ==
  /\ \A c \in {"coingecko", "coindesk"} :
       lastRequestTime[c] = 0 \/ lastRequestTime[c] + rateLimitDelay(c) <= BootTime + Horizon

NextStatus ==
  \/ statusObservable /\ getOverallStatus /\ UNCHANGED <<schedVars, histVars, hookVars, bot, endpoint, effects>>
  \/ probeStarts /\ UNCHANGED <<schedVars, histVars, hookVars, bot, endpoint, effects>>
  \/ timerExpires(StatusCaller) /\ UNCHANGED <<cacheVars, schedVars, histVars, hookVars, appVars>>
  \/ \E ok \in BOOLEAN, data \in ResponseBodies :
       clientProbeSettles(ok, data) /\ UNCHANGED <<schedVars, histVars, hookVars, bot, endpoint, effects>>
  \/ \E ok \in BOOLEAN : rpcSettles(ok) /\ UNCHANGED <<schedVars, histVars, hookVars, bot, endpoint, effects>>
  \/ \E ok \in BOOLEAN, data \in ResponseBodies :
       subgraphSettles(ok, data) /\ UNCHANGED <<schedVars, histVars, hookVars, bot, endpoint, effects>>
  \/ Tick(Horizon)

SpecStatus == InitStatus /\ [][NextStatus]_vars

\* One GET /api/status request.
InitEndpoint ==
  /\ now = BootTime
  /\ clientsConstructed
  /\ apiKey = [c \in Clients |-> TRUE]
  /\ cachesConstructed
  /\ runnerConstructed
  /\ dispatcherConstructed
  /\ aggregatorConstructed
  /\ botConstructed
  /\ endpointConstructed
  /\ effectsConstructed
  /\ secret = "s1"

NextEndpoint ==
  \/ statusRequested
       /\ UNCHANGED <<now, clientVars, cacheVars, schedVars, histVars, hookVars, health, bot, effects>>
  \/ \E outcome \in {"healthy", "unavailable", "error"} :
       /\ apiProbeSettles(outcome)
       /\ UNCHANGED <<now, clientVars, cacheVars, schedVars, histVars, hookVars, health, bot, effects>>

SpecEndpoint == InitEndpoint /\ [][NextEndpoint]_vars

\* The bot commands of one issue comment.
InitBot ==
  /\ now = BootTime
  /\ clientsConstructed
  /\ apiKey = [c \in Clients |-> TRUE]
  /\ cachesConstructed
  /\ runnerConstructed
  /\ dispatcherConstructed
  /\ aggregatorConstructed
  /\ botConstructed
  /\ endpointConstructed
  /\ effectsConstructed
  /\ secret = "s1"

NextBot ==
  \/ \E action \in {"created", "edited"}, lines \in CommentBodies, octokitOk \in BOOLEAN :
       /\ commentArrives(action, lines, octokitOk)
       /\ UNCHANGED <<now, clientVars, cacheVars, schedVars, histVars, hookVars, health, endpoint, effects>>
  \/ commandStarts /\ UNCHANGED <<now, clientVars, cacheVars, schedVars, histVars, hookVars, health, endpoint, effects>>
  \/ \E ok \in BOOLEAN :
       actionSettles(ok) /\ UNCHANGED <<now, clientVars, cacheVars, schedVars, histVars, hookVars, health, endpoint, effects>>
  \/ \E delivered \in BOOLEAN :
       replySettles(delivered) /\ UNCHANGED <<now, clientVars, cacheVars, schedVars, histVars, hookVars, health, endpoint, effects>>

SpecBot == InitBot /\ [][NextBot]_vars

\* What is certain to happen while a status call runs: the loop goes on to
\* the next probe, the clock advances, pacing timers expire, and a request
\* that carries a timeout fails at the latest when the timeout expires. An
\* upstream is never certain to answer.
clientTimesOut == clientProbeSettles(FALSE, Null) /\ UNCHANGED <<schedVars, histVars, hookVars, bot, endpoint, effects>>
rpcTimesOut == rpcSettles(FALSE) /\ UNCHANGED <<schedVars, histVars, hookVars, bot, endpoint, effects>>

FairStatus ==
  /\ WF_vars(probeStarts /\ UNCHANGED <<schedVars, histVars, hookVars, bot, endpoint, effects>>)
  /\ WF_vars(timerExpires(StatusCaller) /\ UNCHANGED <<cacheVars, schedVars, histVars, hookVars, appVars>>)
  /\ WF_vars(Tick(Horizon))
  /\ WF_vars(clientTimesOut)
  /\ WF_vars(rpcTimesOut)

SpecStatusLive == SpecStatus /\ FairStatus

----------------------------------------------------------------------------
(* Properties of the rate-limited clients                                  *)

\* C1: for every client and every interleaving of concurrent makeRequest
\* calls, any two outbound requests issued through the client are at least
\* rateLimitDelay apart.
C1_ConcurrentPacing ==
  \A c \in Clients : \A i, j \in 1..Len(issued[c]) :
    i < j => issued[c][j].at - issued[c][i].at >= rateLimitDelay(c)

\* C6: when one caller makes two makeRequest calls on the same client one
\* after the other, the second request is issued no earlier than
\* rateLimitDelay after the first was issued (whatever other callers do).
C6_SequentialPacing ==
  \A c \in Clients : \A i, j \in 1..Len(issued[c]) :
    (i < j /\ issued[c][i].caller = issued[c][j].caller)
      => issued[c][j].at - issued[c][i].at >= rateLimitDelay(c)

\* C6 witness: a caller's second call started less than rateLimitDelay after
\* its first request was issued, waited, and has issued its request.
C6_Witness ==
  \E c \in Clients : \E i, j \in 1..Len(issued[c]) :
    /\ i < j
    /\ issued[c][i].caller = issued[c][j].caller
    /\ issued[c][j].calledAt - issued[c][i].at < rateLimitDelay(c)
    /\ issued[c][j].at > issued[c][j].calledAt

\* C37: under a non-decreasing clock a makeRequest call asks for one pacing
\* wait of at most rateLimitDelay, whoever else waits on the client, and
\* issues its request as soon as it resumes, so every waiting call issues
\* its request once its timer has expired (followed for the timers that
\* expire within the time observed); lastRequestTime never decreases.
C37_BoundedWaitThenIssue ==
  /\ [](\A p \in Callers : pc[p] = "sleeping" =>
          /\ wakeAt[p] - nowAtCall[p] > 0
          /\ wakeAt[p] - nowAtCall[p] <= rateLimitDelay(callClient[p]))
  /\ [][/\ \A c \in Clients : lastRequestTime'[c] >= lastRequestTime[c]
        /\ \A p \in Callers : (pc[p] = "sleeping" /\ wakeAt'[p] # wakeAt[p]) =>
             /\ pc'[p] = "inflight"
             /\ Len(issued'[callClient[p]]) = Len(issued[callClient[p]]) + 1]_vars
  /\ \A p \in Callers :
       (pc[p] = "sleeping" /\ wakeAt[p] <= BootTime + Horizon) ~> (pc[p] = "inflight")

\* C37 witness: both callers wait on the same client at once, the second
\* one having called after the first.
C37_Witness ==
  /\ \A p \in Callers : pc[p] = "sleeping"
  /\ callClient[1] = callClient[2]
  /\ nowAtCall[1] < nowAtCall[2]
  /\ wakeAt[1] = wakeAt[2]

\* C15: a makeRequest call makes at most one HTTP attempt; when the attempt
\* settles, with a response or a failure, the call is over (its data returned
\* or its error re-raised) and no further request is issued for it.
C15_SingleAttemptNoRetry ==
  [][\A p \in Callers :
       /\ attempts'[p] <= 1
       /\ (pc[p] = "inflight" /\ pc'[p] # "inflight") =>
            /\ pc'[p] = "idle"
            /\ result'[p] \in {"data", "error"}
            /\ issued' = issued
            /\ lastRequestTime' = lastRequestTime]_vars

\* C15 witness: a call that had to wait for the pacing delay issued its one
\* request, the request failed and the error was handed to the caller.
C15_Witness ==
  \E p \in Callers : \E i \in 1..Len(issued[callClient[p]]) :
    /\ issued[callClient[p]][i].caller = p
    /\ issued[callClient[p]][i].at > issued[callClient[p]][i].calledAt
    /\ i = Len(issued[callClient[p]])
    /\ pc[p] = "idle"
    /\ result[p] = "error"
    /\ attempts[p] = 1

\* C22: without the Arkham API key a makeRequest call ends at once with the
\* configuration error (no wait, no outbound request, lastRequestTime and the
\* cache unchanged) and the health probe returns 'unavailable'.
C22_NoKeyFailsFast ==
  [][~apiKey["arkhamIntel"] =>
       /\ \A p \in Callers :
            /\ pc'[p] = "idle"
            /\ (result'[p] # result[p] \/ callClient'[p] # callClient[p]) =>
                 result'[p] \in {"config_error", "unavailable"}
       /\ issued' = issued
       /\ lastRequestTime' = lastRequestTime
       /\ cache' = cache]_vars

\* C22 witness: without the key, one caller's makeRequest has failed with the
\* configuration error and another caller's probe has returned 'unavailable'.
C22_Witness ==
  /\ ~apiKey["arkhamIntel"]
  /\ \E p, q \in Callers : result[p] = "config_error" /\ result[q] = "unavailable"
  /\ issued["arkhamIntel"] = <<>>
  /\ now > BootTime

----------------------------------------------------------------------------
(* Properties of the TTL caches                                            *)

\* The entry written by the latest setCachedData of the key read by the last
\* getCachedData was still in the store when that read ran.
readEntryStillStored ==
  LET e == latest[cacheOp.store][cacheOp.key] IN
  e.removedAt = 0 \/ e.removedAt = cacheOp.count

\* C7 (as claimed): a getCachedData(k, w) performed at most w after the latest
\* setCachedData(k, v) returns v, also at age exactly w, and one performed
\* more than w after it returns null, whatever happened in between.
C7_FreshWithinWindow ==
  (cacheOp.op = "get" /\ cacheOp.key \in DOMAIN latest[cacheOp.store]) =>
    LET e == latest[cacheOp.store][cacheOp.key] IN
    IF cacheOp.at - e.timestamp <= cacheOp.maxAge
    THEN cacheOp.value = e.data
    ELSE cacheOp.value = Null

\* C7 (amended): a getCachedData(k, w) performed at most w after the latest
\* setCachedData(k, v) returns v, also at age exactly w, provided the entry
\* was not removed in between (by a clean-up or by a read of k with a smaller
\* window that found it expired); otherwise it returns null.
C7_FreshWhileStored ==
  (cacheOp.op = "get" /\ cacheOp.key \in DOMAIN latest[cacheOp.store]) =>
    LET e == latest[cacheOp.store][cacheOp.key] IN
    IF readEntryStillStored /\ cacheOp.at - e.timestamp <= cacheOp.maxAge
    THEN cacheOp.value = e.data
    ELSE cacheOp.value = Null

\* C7 witness: a read at age exactly w of a key written by setCachedData
\* returned the written payload.
C7_Witness ==
  /\ cacheOp.op = "get"
  /\ cacheOp.key \in DOMAIN latest[cacheOp.store]
  /\ cacheOp.at - latest[cacheOp.store][cacheOp.key].timestamp = cacheOp.maxAge
  /\ cacheOp.value = latest[cacheOp.store][cacheOp.key].data
  /\ cacheOp.value \in Values

\* C8: after every setCachedData the size of every service's store is at or
\* below its ceiling (50 or 100; for a store without a ceiling of its own, the
\* largest ceiling), so no store grows without bound.
C8_SizeWithinCeiling ==
  \A s \in Stores : Len(cache[s]) <= cacheCeiling(s)

\* C14: a cached read that finds a fresh entry for its key returns the
\* cached value at once, issues no outbound request and leaves the client's
\* lastRequestTime and the cache contents unchanged.
C14_HitShortCircuits ==
  [][(readOp'.parity # readOp.parity /\ readOp'.fresh) =>
       /\ issued' = issued
       /\ lastRequestTime' = lastRequestTime
       /\ cache' = cache
       /\ pc' = pc
       /\ result'[readOp'.caller] = "cached"]_vars

\* C26: when the outbound call of a cached read fails (a timeout included),
\* the step leaves every cache store exactly as it was and the caller gets
\* the error; the cache is not touched either when the request is issued
\* after the pacing wait.
C26_FailedReadKeepsCache ==
  [][\A p \in Readers :
       /\ (reading[p] # 0 /\ pc[p] = "inflight" /\ pc'[p] = "idle" /\ result'[p] # "data") =>
            /\ cache' = cache
            /\ result'[p] = "error"
            /\ reading'[p] = 0
       /\ (reading[p] # 0 /\ pc[p] = "sleeping" /\ pc'[p] = "inflight") => cache' = cache]_vars

\* C26 witness: a cached read has failed while the store of its client holds
\* the entry another read of that client has written, which is still there.
C26_Witness ==
  \E p, q \in Readers :
    /\ result[p] = "error" /\ reading[p] = 0 /\ pc[p] = "idle"
    /\ result[q] = "data" /\ callClient[q] = callClient[p]
    /\ cache[callClient[p]] # <<>>
    /\ readOp.caller = p

\* C29: the keys of a store iterate in the order of their insertion, which a
\* setCachedData of an existing key does not change; a setCachedData that
\* takes the store above its ceiling removes exactly 10 (ceiling 50) or 20
\* (ceiling 100) keys, the earliest inserted ones (a prefix of the insertion
\* order), so every removed key was inserted before every retained key.
C29_TrimRemovesEarliest ==
  [][/\ \A s \in TrimStores :
          [i \in 1..Len(cache'[s]) |-> cache'[s][i].key] = insertions'[s]
     /\ (cacheOp'.count # cacheOp.count /\ cacheOp'.op = "set") =>
          LET s        == cacheOp'.store
              k        == cacheOp'.key
              known    == {insertions[s][i] : i \in 1..Len(insertions[s])}
              before   == IF k \in known THEN insertions[s] ELSE Append(insertions[s], k)
              kept     == keysOf(cache'[s])
              removed  == {before[i] : i \in 1..Len(before)} \ kept
              overflow == hasTrim(s) /\ Len(before) > cacheCeiling(s)
          IN /\ Cardinality(removed) =
                  (IF ~overflow THEN 0 ELSE IF cacheCeiling(s) = 50 THEN 10 ELSE 20)
             /\ removed = {before[i] : i \in 1..Cardinality(removed)}
             /\ insertions'[s] = SubSeq(before, Cardinality(removed) + 1, Len(before))]_vars

\* C29 witness: key 1 of a full store with ceiling 50 was set again, and the
\* next setCachedData of a new key has removed ten keys, key 1 among them.
C29_Witness ==
  /\ cacheOp.op = "set" /\ cacheOp.store = "coindesk" /\ cacheOp.count = 2
  /\ Len(cache["coindesk"]) = 41
  /\ 1 \in DOMAIN latest["coindesk"] /\ latest["coindesk"][1].removedAt = 2
  /\ keysOf(cache["coindesk"]) = 11..51

\* C34: a getCachedData(k, w) performed right after setCachedData(k, v), at
\* the same time, returns v: the set leaves k stored with v, whether k was
\* new or present and whether or not the set trimmed the store.
C34_SetThenGetReturnsValue ==
  [][/\ (cacheOp'.op = "set" /\ cacheOp'.count # cacheOp.count) =>
          LET s == cacheOp'.store  k == cacheOp'.key IN
          /\ k \in keysOf(cache'[s])
          /\ cache'[s][indexOf(cache'[s], k)].data = cacheOp'.value
     /\ (/\ cacheOp.op = "set" /\ cacheOp'.op = "get"
         /\ cacheOp'.key = cacheOp.key /\ cacheOp'.at = cacheOp.at) =>
          cacheOp'.value = cacheOp.value]_vars

\* C34 witness: a set of a new key overflowed the store and trimmed it, and
\* the get of that key that followed returned the value just set.
C34_Witness ==
  /\ cacheOp.op = "get" /\ cacheOp.store = "coindesk" /\ cacheOp.count = 2
  /\ cacheOp.key = 51 /\ cacheOp.value = "v1"
  /\ keysOf(cache["coindesk"]) = 11..51
  /\ latest["coindesk"] = (51 :> [data |-> "v1", timestamp |-> now, removedAt |-> 0])

\* C36: while a caller is between its cache miss for a key and its
\* setCachedData, no other caller has an outbound request issued for the
\* same key of the same client.
C36_NoDuplicateFetch ==
  [][\A p \in Readers, q \in Readers :
       (/\ p # q
        /\ reading[p] # 0
        /\ reading'[q] = reading[p]
        /\ callClient'[q] = callClient[p]
        /\ pc[q] # "inflight") => pc'[q] # "inflight"]_vars

\* C17: a getCachedData(k, maxAge) that finds an entry older than maxAge
\* returns absent and removes exactly that entry, so k is no longer a key of
\* the store; one that finds a fresh entry or no entry leaves the store as it
\* was.
C17_ExpiredReadEvicts ==
  [][(cacheOp'.op = "get" /\ cacheOp'.count = cacheOp.count + 1) =>
       LET s == cacheOp'.store
           k == cacheOp'.key
       IN IF k \in keysOf(cache[s])
             /\ now - cache[s][indexOf(cache[s], k)].timestamp > cacheOp'.maxAge
          THEN /\ cacheOp'.value = Null
               /\ k \notin keysOf(cache'[s])
               /\ cache'[s] = SelectSeq(cache[s], LAMBDA e : e.key # k)
               /\ \A x \in Stores \ {s} : cache'[x] = cache[x]
          ELSE cache' = cache]_vars

\* C17 witness: the last operation was a read that found the entry written
\* by an earlier setCachedData older than its window and removed it.
C17_Witness ==
  /\ cacheOp.op = "get"
  /\ cacheOp.value = Null
  /\ cacheOp.key \in DOMAIN latest[cacheOp.store]
  /\ latest[cacheOp.store][cacheOp.key].removedAt = cacheOp.count
  /\ cacheOp.at - latest[cacheOp.store][cacheOp.key].timestamp > cacheOp.maxAge
  /\ cacheOp.key \notin keysOf(cache[cacheOp.store])

----------------------------------------------------------------------------
(* Properties of the health aggregator                                     *)

\* C16: a completed getOverallStatus has an entry for each of the six
\* services, and its overall field is 'degraded' exactly when some entry has
\* status 'error' and 'healthy' otherwise ('unavailable' and 'unknown' entries
\* do not degrade it).
C16_DegradedIffError ==
  health.phase = "done" =>
    /\ DOMAIN health.entries = {serviceOrder[i] : i \in 1..NumServices}
    /\ health.overall \in {"healthy", "degraded"}
    /\ health.overall = "degraded" <=>
         \E s \in DOMAIN health.entries : health.entries[s] = "error"

\* C16 witness: a call completed with the Arkham entry 'unavailable', no
\* entry 'error', and overall 'healthy'.
C16_Witness ==
  /\ health.phase = "done"
  /\ health.entries["arkhamIntel"] = "unavailable"
  /\ \A s \in DOMAIN health.entries : health.entries[s] # "error"
  /\ health.overall = "healthy"

\* C18: every outbound call carries a timeout, so a getOverallStatus call
\* that was started completes even when an upstream never answers.
C18_StatusCallCompletes ==
  (health.phase = "running") ~> (health.phase = "done")

\* C20: no entry of a completed getOverallStatus comes from a result cached
\* by an earlier call: every service was probed afresh.
C20_StatusAlwaysLive ==
  health.phase = "done" => health.fromCache = {}

\* C21: the response of GET /api/status has the per-service entries and the
\* overall healthy/degraded value getOverallStatus computes from the same
\* probe results.
C21_EndpointReturnsHealthStatus ==
  endpoint.phase = "responded" =>
    LET hs == overallStatusOf(endpoint.outcomes) IN
      /\ endpoint.response.services = hs.services
      /\ "overall" \in DOMAIN endpoint.response
      /\ endpoint.response.overall = hs.overall

----------------------------------------------------------------------------
(* Properties of the bot commands                                          *)

\* C19: 'analyze' invokes only the gas analysis, 'monitor' only the network
\* monitoring update, 'status' only the aggregate health query, whose
\* payload is the reply; any other command word invokes none of the three and
\* is answered with the fixed 'Unknown command' reply.
C19_CommandsMapToActions ==
  LET expected(cmd) == CASE cmd = "analyze" -> "gasAnalysis"
                         [] cmd = "monitor" -> "networkMonitoring"
                         [] cmd = "status"  -> "overallStatus"
                         [] OTHER           -> "none"
  IN /\ \A i \in 1..Len(bot.invoked) :
          /\ bot.invoked[i].action = expected(bot.commands[bot.invoked[i].command])
          /\ \A j \in 1..Len(bot.invoked) :
               bot.invoked[j].command = bot.invoked[i].command => j = i
     /\ \A i \in 1..Len(bot.replies) :
          LET cmd == bot.commands[bot.replies[i].command] IN
          /\ expected(cmd) = "none" => bot.replies[i].text = "Unknown command"
          /\ cmd = "status" => bot.replies[i].text = "Current Status: <health payload>"
     /\ bot.phase # "raised" \/ bot.invoked = <<>>

\* C19 witness: a comment with a 'status' command and an unrecognized command
\* word has been executed completely.
C19_Witness ==
  /\ bot.phase = "done"
  /\ bot.commands = <<"status", "help">>
  /\ Len(bot.invoked) = 1
  /\ Len(bot.replies) = 2

\* C38: once the installation client is obtained, the commands of a comment
\* are executed one at a time in line order: the action of a command starts
\* only after every earlier command was replied to, a failed action is
\* answered and the loop goes on, and every command gets exactly one reply
\* attempt (success text, 'Command failed' or 'Unknown command').
C38_CommandsInOrderOneReplyEach ==
  /\ \A i \in 1..Len(bot.replies) :
       /\ bot.replies[i].command = i
       /\ bot.replies[i].text \in
            (IF commandAction(bot.commands[i]) = "none" THEN {"Unknown command"}
             ELSE {successReply(commandAction(bot.commands[i])), "Command failed"})
  /\ \A i, j \in 1..Len(bot.invoked) :
       i < j => bot.invoked[i].command < bot.invoked[j].command
  /\ \A i \in 1..Len(bot.invoked) : bot.invoked[i].command <= Len(bot.replies) + 1
  /\ bot.phase = "running" => Len(bot.replies) = bot.next - 1
  /\ bot.phase = "done" => Len(bot.replies) = Len(bot.commands)
  /\ bot.phase = "raised" => (bot.invoked = <<>> /\ bot.replies = <<>>)

\* C38 witness: the action of the first of two commands failed and was
\* answered, whether or not the answer could be posted, and the second
\* command was executed and answered after it.
C38_Witness ==
  /\ bot.phase = "done"
  /\ bot.commands = <<"analyze", "monitor">>
  /\ bot.replies = <<[command |-> 1, text |-> "Command failed", delivered |-> FALSE],
                     [command |-> 2, text |-> "Network monitoring activated",
                      delivered |-> TRUE]>>
  /\ bot.invoked = <<[command |-> 1, action |-> "gasAnalysis"],
                     [command |-> 2, action |-> "networkMonitoring"]>>

----------------------------------------------------------------------------
(* Properties of the task runner                                           *)

\* C4: after start() is called on a stopped runner, the runner is running and
\* every task in the registry (built-in or added earlier) has an active timer.
C4_StartActivatesAll ==
  [][(~isRunning /\ isRunning') =>
       \A n \in DOMAIN tasks' : tasks'[n].scheduled]_vars

\* C5: when a firing settles, whether its task function failed or not, no
\* exception leaves the timer callback, the runner's isRunning is unchanged,
\* no cron task is stopped or unregistered, and no other firing in progress
\* is affected.
C5_TaskIsolation ==
  [][(firings' # firings /\ ~(firings \subseteq firings')) =>
       /\ escaped' = escaped
       /\ BagCardinality(reports') = BagCardinality(reports) + 1
       /\ isRunning' = isRunning
       /\ tasks' = tasks
       /\ orphans' = orphans
       /\ Cardinality(firings') = Cardinality(firings) - 1]_vars

\* C5 witness: three tasks are registered on a running runner, the firing of
\* the second failed, the firings of the first and the third reported
\* success, and the runner is still running with all three still active.
C5_Witness ==
  /\ isRunning
  /\ \A n \in {"t1", "t2", "t3"} : n \in DOMAIN tasks /\ tasks[n].scheduled
  /\ \E r \in BagToSet(reports) : r.name = "t2" /\ r.kind = "error"
  /\ \E r \in BagToSet(reports) : r.name = "t1" /\ r.kind = "performance"
  /\ \E r \in BagToSet(reports) : r.name = "t3" /\ r.kind = "performance"

\* C12: a stop() of a running runner leaves the registry empty, isRunning
\* false and no cron task active: none of the tasks registered before the
\* stop can fire again or is kept in the registry.
C12_StopClearsEverything ==
  [][(isRunning /\ ~isRunning') =>
       /\ tasks' = <<>>
       /\ activeTimers' = {}
       /\ \A n \in DOMAIN tasks :
            [name |-> n, handler |-> tasks[n].handler] \notin activeTimers']_vars

\* C12 witness: the runner has been stopped after a task that was active in
\* it had fired, and its registry is empty.
C12_Witness ==
  /\ ~isRunning
  /\ tasks = <<>>
  /\ BagCardinality(reports) > 0

\* C13: every active cron task is the one its name is registered to, so a
\* name has at most one live timer; an addTask over an existing name leaves
\* the previous cron task stopped and maps the name to the new one; and a
\* firing only ever starts for the cron task currently registered.
C13_OneLiveTimerPerName ==
  [][/\ orphans' = {}
     /\ \A t \in activeTimers' :
          /\ t.name \in DOMAIN tasks'
          /\ tasks'[t.name].handler = t.handler
     /\ \A f \in firings' \ firings :
          /\ f.name \in DOMAIN tasks
          /\ tasks[f.name].scheduled
          /\ tasks[f.name].handler = f.handler]_vars

\* C13 witness: addTask has replaced an active cron task by one with another
\* handler while a firing of the replaced one was in progress, and the new
\* cron task has fired since.
C13_Witness ==
  /\ replaced
  /\ isRunning
  /\ "t1" \in DOMAIN tasks /\ tasks["t1"].scheduled /\ tasks["t1"].handler = "fails"
  /\ [name |-> "t1", handler |-> "succeeds", startTime |-> BootTime] \in firings
  /\ \E r \in BagToSet(reports) : r.name = "t1" /\ r.handler = "fails"

\* The report a settling firing f adds, whatever its other fields.
reportedBy(f) ==
  {r \in BagToSet(reports') :
     /\ CopiesIn(r, reports') = CopiesIn(r, reports) + 1
     /\ r.name = f.name /\ r.handler = f.handler}

C28_FiringsLeaveRegistry ==
  [][/\ (firings' # firings \/ reports' # reports \/ escaped' # escaped) =>
          tasks' = tasks /\ isRunning' = isRunning
     /\ DOMAIN tasks' # DOMAIN tasks =>
          firings' = firings /\ reports' = reports]_vars

\* C28 witness: on a running runner with t1 and t2 registered, one firing
\* has reported a failure, one a success, and a third is in progress.
C28_Witness ==
  /\ isRunning
  /\ {"t1", "t2"} \subseteq DOMAIN tasks
  /\ tasks["t1"].scheduled /\ tasks["t2"].scheduled
  /\ \E r \in BagToSet(reports) : r.kind = "error"
  /\ \E r \in BagToSet(reports) : r.kind = "performance"
  /\ Cardinality(firings) = 1

\* C23: an addTask that replaces a task leaves the firings in progress as they
\* are; a firing of the replaced cron task settles with the outcome of its own
\* (old) handler and is reported; and every firing that begins runs the
\* handler registered under its name at that moment, so none of the replaced
\* handler begins after the replacement.
C23_ReplaceDuringFiring ==
  [][/\ (\E n \in DOMAIN tasks \cap DOMAIN tasks' : tasks'[n] # tasks[n]) =>
          firings' = firings /\ reports' = reports
     /\ \A f \in firings \ firings' :
          /\ BagCardinality(reports') = BagCardinality(reports) + 1
          /\ \E r \in reportedBy(f) : r.kind = (IF f.handler = "fails" THEN "error" ELSE "performance")
     /\ \A f \in firings' \ firings :
          /\ f.name \in DOMAIN tasks /\ tasks[f.name].handler = f.handler
          /\ \A c \in cutOff : c.name # f.name \/ c.handler # f.handler]_vars

\* C23 witness: t1 was replaced while its firing was in progress; that firing
\* has since reported the success of the old handler, and a firing of the new
\* handler, begun after the replacement, has reported its failure.
C23_Witness ==
  /\ "t1" \in DOMAIN tasks /\ tasks["t1"].handler = "fails"
  /\ \E r \in BagToSet(reports) :
       r.name = "t1" /\ r.handler = "succeeds" /\ r.cutOff = "replaced" /\ r.kind = "performance"
  /\ \E r \in BagToSet(reports) :
       r.name = "t1" /\ r.handler = "fails" /\ r.cutOff = "no" /\ r.kind = "error"

\* C24: a stop() leaves the firings in progress as they are; a firing whose
\* cron task was stopped still settles with exactly one report of its own
\* outcome, and settling changes neither the registry nor the active timers;
\* while the runner is stopped no firing begins.
C24_StopDuringFiring ==
  [][/\ (isRunning /\ ~isRunning') => firings' = firings /\ reports' = reports
     /\ \A f \in firings \ firings' :
          /\ BagCardinality(reports') = BagCardinality(reports) + 1
          /\ \E r \in reportedBy(f) : r.kind = (IF f.handler = "fails" THEN "error" ELSE "performance")
          /\ tasks' = tasks /\ isRunning' = isRunning /\ activeTimers' = activeTimers
     /\ ~isRunning => firings' \subseteq firings /\ activeTimers = {}]_vars

\* C24 witness: the runner is stopped with an empty registry, and the two
\* firings that were in progress at the stop have reported since, one its
\* success and one its failure.
C24_Witness ==
  /\ ~isRunning /\ tasks = <<>> /\ firings = {}
  /\ \E r \in BagToSet(reports) : r.cutOff = "stopped" /\ r.kind = "performance"
  /\ \E r \in BagToSet(reports) : r.cutOff = "stopped" /\ r.kind = "error"

\* C31: while the runner is not running no cron task has an active timer,
\* registered or not; a task added while the runner is stopped is created
\* dormant, so no timer callback starts while the runner is stopped.
C31_StoppedRunnerHasNoTimers ==
  [][/\ ~isRunning' => /\ \A n \in DOMAIN tasks' : ~tasks'[n].scheduled
                       /\ orphans' = {}
     /\ (called'.op = "addTask" /\ ~called'.wasRunning) =>
          ~tasks'[called'.name].scheduled
     /\ ~isRunning => firings' \subseteq firings]_vars

\* C31 witness: after the runner ran and was stopped, a task is added and
\* sits dormant in the registry.
C31_Witness ==
  /\ ~isRunning
  /\ reports # EmptyBag
  /\ called = [op |-> "addTask", wasRunning |-> FALSE, name |-> "t1"]
  /\ "t1" \in DOMAIN tasks /\ ~tasks["t1"].scheduled

\* C32: start() on a runner that is already running changes nothing: the
\* registry, every cron task and isRunning stay as they were.
C32_StartWhileRunningIsNoOp ==
  [][(called'.op = "start" /\ called'.wasRunning) =>
       UNCHANGED <<isRunning, tasks, orphans, firings, reports, escaped>>]_vars

\* C32 witness: start() was called on a running runner that has a user task
\* with an active timer and a firing in progress.
C32_Witness ==
  /\ called = [op |-> "start", wasRunning |-> TRUE, name |-> "none"]
  /\ isRunning
  /\ "t1" \in DOMAIN tasks /\ tasks["t1"].scheduled
  /\ \A i \in 1..Len(builtinTasks) : builtinTasks[i] \in DOMAIN tasks
  /\ firings # {}

\* C33: stop() on a runner that is not running changes nothing: the tasks
\* added while the runner was stopped stay registered, dormant.
C33_StopWhileStoppedIsNoOp ==
  [][(called'.op = "stop" /\ ~called'.wasRunning) =>
       UNCHANGED <<isRunning, tasks, orphans, firings, reports, escaped>>]_vars

\* C33 witness: stop() was called on a stopped runner whose registry holds
\* two tasks added while it was stopped.
C33_Witness ==
  /\ called = [op |-> "stop", wasRunning |-> FALSE, name |-> "none"]
  /\ ~isRunning
  /\ DOMAIN tasks = {"t1", "t2"}
  /\ \A n \in DOMAIN tasks : ~tasks[n].scheduled

----------------------------------------------------------------------------
(* Properties of the webhook dispatcher                                    *)

\* The signature header is exactly 'sha256=' + HMAC-SHA256, under the
\* configured secret, of the body as the dispatcher serializes it.
signatureMatches ==
  /\ secret # NoSecret
  /\ hook.sig = hmacHeader(secret, JsonStringify(JsonParse(hook.raw)))

\* C2: a handler is invoked only for a request whose signature verification
\* succeeded against the configured secret; when the signature is bad or
\* missing, the secret is missing, or the verification raises, no handler
\* is called.
C2_HandlerOnlyAfterVerification ==
  hook.handler # "none" => (hook.verified = "true" /\ signatureMatches)

\* C2 witness: a request with a matching signature for a registered event has
\* had its handler invoked.
C2_Witness ==
  /\ hook.phase = "handling"
  /\ hook.handler \in registeredEvents
  /\ signatureMatches

\* C3: a request whose signature was computed with the correct secret over a
\* body different from the body delivered is rejected with 401 and reaches no
\* handler, for every event type.
C3_SignedOtherBodyRejected ==
  (/\ hook.phase # "idle"
   /\ secret # NoSecret
   /\ hook.sig.kind = "hmac" /\ hook.sig.key = secret
   /\ hook.sig.msg # hook.raw)
    => (hook.handler = "none" /\ hook.status = 401)

\* C9: a request whose signature header is missing, whose secret is not
\* configured, or whose header differs in content or length from the expected
\* digest is answered with 401.
C9_BadSignatureIs401 ==
  (hook.phase = "responded" /\ ~signatureMatches) => hook.status = 401

\* C10: an authenticated request whose event type is none of the seven
\* registered types (or is absent) is answered 200 'acknowledged but not
\* processed', and no handler runs.
C10_UnknownEventAcknowledged ==
  (hook.phase = "responded" /\ hook.verified = "true" /\ hook.event \notin registeredEvents)
    => /\ hook.status = 200
       /\ hook.message = "Event acknowledged but not processed"
       /\ hook.handler = "none"

\* C25: a failing side effect of a handler changes neither the answer (200)
\* nor the other side effects of the handler: after a push, the network
\* monitoring update has been attempted whether or not the gas analysis
\* failed, and the pull_request, issues and issue_comment handlers answer 200
\* when their comment post, label call or installation-token fetch failed.
C25_SideEffectFailuresContained ==
  (hook.phase = "responded" /\ hook.handler \in registeredEvents) =>
     /\ hook.status = 200
     /\ hook.handler = "push" => "networkUpdate" \in effects.attempted

\* C30: whatever the earlier requests ended in (401 and 500 included), between
\* requests the dispatcher holds nothing of them, and a request with a valid
\* signature is authenticated, routed by the unchanged handler table (to the
\* handler of its event, or to none for an event without one) and answered
\* 200 unless its own handler raises.
C30_NoStateBetweenRequests ==
  /\ hook.phase = "idle" =>
       hook = [phase |-> "idle", raw |-> <<>>, sig |-> NoSignature, event |-> "undefined",
               verified |-> "none", handler |-> "none", outcome |-> "none",
               status |-> 0, message |-> "", sent |-> 0, served |-> hook.served,
               failedBefore |-> hook.failedBefore]
  /\ (hook.phase # "idle" /\ signatureMatches) =>
       /\ hook.verified = "true"
       /\ hook.event \in registeredEvents => hook.handler = hook.event
       /\ lookupHandler(hook.event) = "undefined" => hook.handler = "none"
       /\ (hook.phase = "responded" /\ hook.outcome # "raised") => hook.status = 200

\* C30 witness: after an earlier request was answered 401 or 500, a request
\* with a valid signature for a registered event has been routed to its
\* handler and answered 200.
C30_Witness ==
  /\ hook.failedBefore
  /\ hook.served >= 1
  /\ hook.phase = "responded"
  /\ signatureMatches
  /\ hook.handler = "push"
  /\ hook.status = 200

\* C35: every call of the webhook route sends exactly one response, with
\* status 200, 401 or 500: the synchronous part of handle() either answers
\* (authentication failure, verification raising, no handler, inherited
\* member) or awaits a registered handler without having answered, and the
\* end of the handler call, by return or by exception, answers once; nothing
\* is sent after the answer.
C35_ExactlyOneResponse ==
  [][/\ hook.phase = "idle" =>
          \/ /\ hook'.phase = "responded"
             /\ hook'.sent = 1
             /\ hook'.status \in {200, 401, 500}
          \/ /\ hook'.phase = "handling"
             /\ hook'.sent = 0
             /\ hook'.handler \in registeredEvents
     /\ hook.phase = "handling" =>
          /\ hook'.phase = "responded"
          /\ hook'.sent = 1
          /\ hook'.status \in {200, 500}
     /\ hook.phase = "responded" =>
          /\ hook.sent = 1
          /\ hook'.phase = "idle"
          /\ hook'.served = hook.served + 1]_hook

\* C35 witness: the verification raised and the route's catch block sent the
\* only response of the request.
C35_Witness ==
  /\ hook.phase = "responded"
  /\ hook.verified = "throws"
  /\ hook.handler = "none"
  /\ hook.status = 500
  /\ hook.sent = 1

\* C11: when the handler of an authenticated request raises, the answer is
\* 500 and never 401; when it completes normally the answer is 200.
C11_HandlerFailureIs500 ==
  /\ hook.outcome = "raised" => (hook.verified = "true" /\ hook.status = 500)
  /\ hook.outcome = "returned" => (hook.verified = "true" /\ hook.status = 200)

\* C11 witness: a registered handler of an authenticated request raised and
\* the request was answered.
C11_Witness ==
  /\ hook.phase = "responded"
  /\ hook.handler \in registeredEvents
  /\ hook.verified = "true"
  /\ hook.outcome = "raised"
  /\ hook.sent = 1

====
